---- MODULE Spec2Model ----
(***************************************************************************)
(* Session coordination core of the posture data collection backend:       *)
(* SessionService (session.service.ts) and SyncGateway (sync.gateway.ts).  *)
(*                                                                         *)
(* Every handler is an async function.  It is cut at its awaits: one       *)
(* action per stretch of code between two awaits, so that handlers of      *)
(* different events interleave exactly where the event loop lets them.     *)
(* A repository save(entity) writes the columns of the entity the handler  *)
(* holds (the values it read, with its own changes) over the row.          *)
(***************************************************************************)
EXTENDS Integers, Sequences, FiniteSets, TLC

VARIABLES
    session,        \* the row of table sessions with id "s1"
    devices,        \* the committed rows of table devices
    nextDeviceId,   \* the next generated devices.id
    deviceSockets,  \* SyncGateway.deviceSockets: connection id -> device info
    rooms,          \* the connections that joined the socket.io room "s1"
    connOpen,       \* the connections whose transport is still up
    recordings,     \* the rows of table recordings
    nextRecordingId,\* the next generated recordings.id
    now,            \* the server clock, Date.now()
    announced,      \* the step and distance of the last next_step_ready broadcast
    sessionCodes,   \* sessions.session_code of the rows of table sessions, oldest first
    created,        \* how the last call of createSession ended
    tasks           \* the handler executions in flight

vars == <<session, devices, nextDeviceId, deviceSockets, rooms, connOpen,
          recordings, nextRecordingId, now, announced, sessionCodes, created, tasks>>

\* what the handlers of join_session and of a disconnect leave alone
ledger == <<recordings, nextRecordingId, now, announced, sessionCodes, created>>

----------------------------------------------------------------------------
(* Bounds *)

\* connection (socket) ids handed out by the transport
MaxConns == 2

\* Date.now() is read while now <= MaxClock
MaxClock == 2

\* start_recording is handled while the ids it allocates stay within MaxRecordings
MaxRecordings == 4

\* re-records in one run of the workflow
MaxRerecords == 1

\* the codes nanoid() may generate
MaxCodes == 2

\* createSession is called while the table holds fewer than MaxSessions rows
MaxSessions == 2

Conns == 1..MaxConns

\* Slots for handler executions in flight.  The races examined are between
\* two handlers, so two slots; a specification of handlers that run one at a
\* time starts a handler only when both are free.
Tasks == {1, 2}

----------------------------------------------------------------------------
(* Program constants and values *)

\* Device.socketId is nullable: null means disconnected
NoConn == 0

\* a devices.id that names no row
NoDeviceId == 0

DeviceType == {"desktop", "mobile"}

SessionStatus ==
    {"CREATED", "WAITING_FOR_MOBILE", "READY", "RECORDING", "UPLOADING",
     "COMPLETED", "FAILED"}

\* the one session id createSession hands out, and one that names no session
SessionIds == {"s1", "sx"}

\* a payload without sessionId
MissingId == ""

\* Device.disconnectedAt is nullable: null on a device never detached
NoDate == -1

NoDevice ==
    [id |-> NoDeviceId, sessionId |-> "", deviceType |-> "", socketId |-> NoConn,
     disconnectedAt |-> NoDate]

NoSession ==
    [exists |-> FALSE, status |-> "CREATED", desktopConnected |-> FALSE,
     mobileConnected |-> FALSE, startedAt |-> FALSE, completedAt |-> FALSE]

\* the distance variants of getNextPostureStep, in its order
Distances == <<"nom", "close", "far">>

\* posture_steps.posture_label of the first two seeded steps, by step_order
Catalog == <<"sit_straight", "left_leaning">>

\* what the clients begin with: the first step at the first distance
FirstStep == [step |-> Catalog[1], distance |-> Distances[1]]

UploadStatus == {"PENDING", "UPLOADING", "COMPLETED", "FAILED"}

\* a postureLabel of a start_recording payload that names no posture step
StrayLabel == "freestyle_sitting"

\* step: null of a next_step_ready payload
NoStep == "null"

\* request_next_step without currentPostureLabel, confirm_upload without
\* postureLabel or distance
NoHint == ""

NoRecordingId == 0

NoRecording ==
    [id |-> NoRecordingId, sessionId |-> "", deviceId |-> NoDeviceId, deviceType |-> "",
     postureLabel |-> "", distance |-> "", startTimestamp |-> 0, uploadStatus |-> ""]

NoResult == [step |-> "", distance |-> ""]

NoInfo == [sessionId |-> "", deviceId |-> NoDeviceId]

IdleTask ==
    [pc |-> "idle", kind |-> "none", conn |-> NoConn, sid |-> "", role |-> "",
     device |-> NoDevice, prevSocket |-> NoConn, isNew |-> FALSE, lock |-> NoDeviceId,
     sess |-> NoSession, connected |-> FALSE, status |-> "", label |-> "",
     dist |-> "", ts |-> 0, devs |-> <<>>, recs |-> <<>>, rid |-> NoRecordingId, rec |-> NoRecording,
     stepComplete |-> FALSE, allStepsComplete |-> FALSE, result |-> NoResult,
     failed |-> FALSE, out |-> <<>>]

----------------------------------------------------------------------------
(* The store *)

\* getSession finds a row whatever the id
SessionExists_anyId(sid) == session.exists

SessionExists(sid) == sid = "s1" /\ session.exists

DeviceRows(sid, role) == {d \in devices : d.sessionId = sid /\ d.deviceType = role}

DeviceById(id) == {d \in devices : d.id = id}

\* a row lock (SELECT ... FOR UPDATE) held by the open transaction of another task
LockedByOther(id, t) == \E u \in Tasks \ {t} : tasks[u].lock = id

\* an INSERT of another open transaction with the same (session_id, device_type)
PendingInsertByOther(sid, role, t) ==
    \E u \in Tasks \ {t} :
        /\ tasks[u].pc = "js_commit"
        /\ tasks[u].isNew
        /\ tasks[u].sid = sid
        /\ tasks[u].role = role

UniqueViolation_noConstraint(sid, role) == FALSE

\* CONSTRAINT unique_device_per_session UNIQUE (session_id, device_type)
UniqueViolation(sid, role) == DeviceRows(sid, role) # {}

\* the connections a broadcast to the room reaches
Subscribers == {c \in rooms : connOpen[c]}

Busy == {t \in Tasks : tasks[t].pc # "idle"}

\* a handler starts in the first free slot while fewer than k are in flight
MayStart(t, k) ==
    /\ tasks[t].pc = "idle"
    /\ Cardinality(Busy) < k
    /\ \A u \in Tasks : u < t => tasks[u].pc # "idle"

Emit(t, msg) == Append(tasks[t].out, msg)

\* client.emit('error', ...): to the originating connection only
ErrorNotice(c, message) == [ev |-> "error", to |-> {c}, message |-> message]

\* the handler has run to its end, having emitted the messages out
Finished(t, out) ==
    [IdleTask EXCEPT !.pc = "done", !.kind = tasks[t].kind, !.conn = tasks[t].conn,
                     !.sid = tasks[t].sid, !.role = tasks[t].role, !.out = out]

\* the handlers whose catch block does client.emit('error', ...); the catch
\* blocks of the others only log
EmitsError == {"join", "start", "stop"}

\* an exception thrown in the handler's try block: its catch block runs
Catch(t, message) ==
    [Finished(t, IF tasks[t].kind \in EmitsError
                 THEN Emit(t, ErrorNotice(tasks[t].conn, message))
                 ELSE tasks[t].out)
       EXCEPT !.failed = TRUE]

\* the subscribers of the room a payload's sessionId names
Room(sid) == IF sid = "s1" THEN Subscribers ELSE {}

----------------------------------------------------------------------------
(* SessionService.createSession *)

\* customAlphabet(..., 8)(): one of the 8-character codes
Codes == 1..MaxCodes

\* the code of the first session; which code it is makes no difference
FirstCode == 1

SessionCodeTaken_noConstraint(code) == FALSE

\* session_code VARCHAR(8) UNIQUE: the INSERT of a code a row already has fails
SessionCodeTaken(code) == \E i \in 1..Len(sessionCodes) : sessionCodes[i] = code

\* createSession when nanoid() returns code: save(session) either inserts the
\* row, with status CREATED, or rejects with the violation of the constraint;
\* the first row inserted is the row with id "s1"
CreateSessionWith(code) ==
    /\ Len(sessionCodes) < MaxSessions
    /\ IF SessionCodeTaken(code)
       THEN /\ created' = "QueryFailedError"
            /\ UNCHANGED <<session, sessionCodes>>
       ELSE /\ created' = "persisted"
            /\ sessionCodes' = Append(sessionCodes, code)
            /\ session' = IF session.exists THEN session ELSE [NoSession EXCEPT !.exists = TRUE]
    /\ UNCHANGED <<devices, nextDeviceId, deviceSockets, rooms, connOpen, recordings,
                   nextRecordingId, now, announced, tasks>>

\* the call that creates the session "s1"
CreateSession ==
    /\ ~session.exists
    /\ CreateSessionWith(FirstCode)

----------------------------------------------------------------------------
(* SessionService.updateDeviceConnection *)

SetFlag(s, role, connected) ==
    IF role = "desktop"
    THEN [s EXCEPT !.desktopConnected = connected]
    ELSE [s EXCEPT !.mobileConnected = connected]

UpdateStatus_onlyFromWaiting(s) ==
    IF s.desktopConnected /\ s.mobileConnected
    THEN IF s.status = "WAITING_FOR_MOBILE" THEN [s EXCEPT !.status = "READY"] ELSE s
    ELSE IF s.desktopConnected /\ ~s.mobileConnected
         THEN IF s.status = "CREATED"
              THEN [s EXCEPT !.status = "WAITING_FOR_MOBILE"]
              ELSE s
         ELSE s

\* the status follows the flags, whatever it was
UpdateStatus_followsFlags(s) ==
    [s EXCEPT !.status = IF s.desktopConnected /\ s.mobileConnected THEN "READY"
                         ELSE IF s.desktopConnected THEN "WAITING_FOR_MOBILE"
                         ELSE @]

UpdateStatus(s) ==
    IF s.desktopConnected /\ s.mobileConnected
    THEN IF s.status \in {"CREATED", "WAITING_FOR_MOBILE"}
         THEN [s EXCEPT !.status = "READY"]
         ELSE s
    ELSE IF s.desktopConnected /\ ~s.mobileConnected
         THEN IF s.status = "CREATED"
              THEN [s EXCEPT !.status = "WAITING_FOR_MOBILE"]
              ELSE s
         ELSE s

\* const session = await this.getSession(sessionId)
UdcGetSession(t) ==
    /\ tasks[t].pc = "udc_getSession"
    /\ tasks' = [tasks EXCEPT ![t].pc = "udc_save", ![t].sess = session]
    /\ UNCHANGED <<session, devices, nextDeviceId, deviceSockets, rooms, connOpen, ledger>>

\* the flag, the status, await this.sessionRepository.save(session)
UdcSave(t) ==
    /\ tasks[t].pc = "udc_save"
    /\ session' = UpdateStatus(SetFlag(tasks[t].sess, tasks[t].role, tasks[t].connected))
    /\ tasks' = [tasks EXCEPT
                   ![t].pc = IF tasks[t].kind = "join" THEN "hj_register" ELSE "hd_cleanup",
                   ![t].sess = NoSession]
    /\ UNCHANGED <<devices, nextDeviceId, deviceSockets, rooms, connOpen, ledger>>

----------------------------------------------------------------------------
(* SyncGateway.handleJoinSession and SessionService.joinSession *)

HandleJoinSession(t, k, c, sid, role) ==
    /\ MayStart(t, k)
    /\ connOpen[c]
    /\ tasks' = [tasks EXCEPT ![t] =
                   IF sid = MissingId
                   THEN \* throw new Error('sessionId is required'): caught at once
                        [IdleTask EXCEPT !.pc = "done", !.kind = "join", !.conn = c,
                                         !.role = role, !.failed = TRUE,
                                         !.out = <<ErrorNotice(c, "sessionId is required")>>]
                   ELSE [IdleTask EXCEPT !.pc = "js_getSession", !.kind = "join",
                                         !.conn = c, !.sid = sid, !.role = role]]
    /\ UNCHANGED <<session, devices, nextDeviceId, deviceSockets, rooms, connOpen, ledger>>

\* const session = await this.getSession(sessionId); a NotFoundException goes
\* straight to the handler's catch: client.emit('error')
JsGetSession(t) ==
    /\ tasks[t].pc = "js_getSession"
    /\ tasks' = IF SessionExists(tasks[t].sid)
                THEN [tasks EXCEPT ![t].pc = "js_findDevice"]
                ELSE [tasks EXCEPT ![t] =
                        Catch(t, "Session not found")]
    /\ UNCHANGED <<session, devices, nextDeviceId, deviceSockets, rooms, connOpen, ledger>>

\* startTransaction; findOne(Device, {sessionId, deviceType}, pessimistic_write)
JsFindDevice(t) ==
    /\ tasks[t].pc = "js_findDevice"
    /\ LET rows == DeviceRows(tasks[t].sid, tasks[t].role) IN
         /\ \A d \in rows : ~LockedByOther(d.id, t)
         /\ IF rows = {}
            THEN tasks' = [tasks EXCEPT ![t].pc = "js_saveDevice", ![t].device = NoDevice]
            ELSE \E d \in rows :
                    tasks' = [tasks EXCEPT ![t].pc = "js_saveDevice", ![t].device = d,
                                           ![t].prevSocket = d.socketId,
                                           ![t].lock = d.id]
    /\ UNCHANGED <<session, devices, nextDeviceId, deviceSockets, rooms, connOpen, ledger>>

\* the branch if (device): device.socketId = socketId; disconnectedAt = null
Reattached_keepsSocket(d, c) == d

\* the re-attached role gets a Device id of its own
Reattached_newId(d, c) == [d EXCEPT !.id = nextDeviceId, !.socketId = c, !.disconnectedAt = NoDate]

Reattached(d, c) == [d EXCEPT !.socketId = c, !.disconnectedAt = NoDate]

\* if (device) {...} else {...}; await queryRunner.manager.save(device)
JsSaveDevice(t) ==
    /\ tasks[t].pc = "js_saveDevice"
    /\ IF tasks[t].device.id # NoDeviceId
       THEN /\ tasks' = [tasks EXCEPT ![t].pc = "js_commit",
                                      ![t].device = Reattached(tasks[t].device, tasks[t].conn)]
            /\ UNCHANGED nextDeviceId
       ELSE /\ ~PendingInsertByOther(tasks[t].sid, tasks[t].role, t)
            /\ IF UniqueViolation(tasks[t].sid, tasks[t].role)
               THEN \* the INSERT fails
                    /\ tasks' = [tasks EXCEPT ![t].pc = "js_rollback"]
                    /\ UNCHANGED nextDeviceId
               ELSE /\ tasks' = [tasks EXCEPT
                                   ![t].pc = "js_commit",
                                   ![t].isNew = TRUE,
                                   ![t].device =
                                       [id |-> nextDeviceId, sessionId |-> tasks[t].sid,
                                        deviceType |-> tasks[t].role,
                                        socketId |-> tasks[t].conn,
                                        disconnectedAt |-> NoDate]]
                    /\ nextDeviceId' = nextDeviceId + 1
    /\ UNCHANGED <<session, devices, deviceSockets, rooms, connOpen, ledger>>

\* await queryRunner.commitTransaction()
JsCommit(t) ==
    /\ tasks[t].pc = "js_commit"
    /\ devices' = (devices \ DeviceById(tasks[t].device.id)) \cup {tasks[t].device}
    /\ tasks' = [tasks EXCEPT ![t].pc = "udc_getSession", ![t].lock = NoDeviceId,
                              ![t].isNew = FALSE, ![t].connected = TRUE]
    /\ UNCHANGED <<session, nextDeviceId, deviceSockets, rooms, connOpen, ledger>>

\* this.deviceSockets.set(client.id, ...); await client.join(sessionId)
HjRegister(t) ==
    /\ tasks[t].pc = "hj_register"
    /\ deviceSockets' = [deviceSockets EXCEPT ![tasks[t].conn] =
                           [sessionId |-> tasks[t].sid, deviceId |-> tasks[t].device.id]]
    /\ rooms' = rooms \cup {tasks[t].conn}
    /\ tasks' = [tasks EXCEPT ![t].pc = "hj_getSession", ![t].prevSocket = NoConn]
    /\ UNCHANGED <<session, devices, nextDeviceId, connOpen, ledger>>

\* const session = await this.sessionService.getSession(sessionId)
HjGetSession(t) ==
    /\ tasks[t].pc = "hj_getSession"
    /\ tasks' = [tasks EXCEPT ![t].pc = "hj_emit", ![t].sess = session]
    /\ UNCHANGED <<session, devices, nextDeviceId, deviceSockets, rooms, connOpen, ledger>>

\* client.emit('joined_session'); this.server.to(sessionId).emit('device_joined')
HjEmit(t) ==
    /\ tasks[t].pc = "hj_emit"
    /\ tasks' = [tasks EXCEPT
                   ![t] = Finished(t, tasks[t].out \o
                       << [ev |-> "joined_session", to |-> {tasks[t].conn},
                           deviceId |-> tasks[t].device.id,
                           status |-> tasks[t].sess.status],
                          [ev |-> "device_joined", to |-> Subscribers,
                           deviceId |-> tasks[t].device.id,
                           status |-> tasks[t].sess.status] >>)]
    /\ UNCHANGED <<session, devices, nextDeviceId, deviceSockets, rooms, connOpen, ledger>>

\* await queryRunner.rollbackTransaction(); throw error; client.emit('error')
JsRollback(t) ==
    /\ tasks[t].pc = "js_rollback"
    /\ tasks' = [tasks EXCEPT ![t] =
                   Catch(t, "duplicate key")]
    /\ UNCHANGED <<session, devices, nextDeviceId, deviceSockets, rooms, connOpen, ledger>>

----------------------------------------------------------------------------
(* SyncGateway.handleDisconnect and SessionService.disconnectDevice *)

\* the transport of connection c drops: the socket leaves its rooms, then
\* const deviceInfo = this.deviceSockets.get(client.id)
HandleDisconnect(t, k, c) ==
    /\ MayStart(t, k)
    /\ connOpen[c]
    /\ connOpen' = [connOpen EXCEPT ![c] = FALSE]
    /\ rooms' = rooms \ {c}
    /\ tasks' = [tasks EXCEPT ![t] =
                   [IdleTask EXCEPT
                      !.pc = IF deviceSockets[c] = NoInfo THEN "done" ELSE "dd_findDevice",
                      !.kind = "disconnect", !.conn = c,
                      !.sid = deviceSockets[c].sessionId,
                      !.device.id = deviceSockets[c].deviceId]]
    /\ UNCHANGED <<session, devices, nextDeviceId, deviceSockets, ledger>>

\* const device = await this.deviceRepository.findOne({ where: { id: deviceId } })
DdFindDevice(t) ==
    /\ tasks[t].pc = "dd_findDevice"
    /\ LET rows == DeviceById(tasks[t].device.id) IN
         IF rows = {}
         THEN tasks' = [tasks EXCEPT ![t].pc = "hd_cleanup"]
         ELSE \E d \in rows :
                 tasks' = [tasks EXCEPT ![t].pc = "dd_saveDevice", ![t].device = d,
                                        ![t].prevSocket = d.socketId,
                                        ![t].role = d.deviceType]
    /\ UNCHANGED <<session, devices, nextDeviceId, deviceSockets, rooms, connOpen, ledger>>

\* device.disconnectedAt = new Date(); device.socketId = null
Detached(d) == [d EXCEPT !.socketId = NoConn, !.disconnectedAt = now]

\* await this.deviceRepository.save(device)
DdSaveDevice(t) ==
    /\ tasks[t].pc = "dd_saveDevice"
    /\ ~LockedByOther(tasks[t].device.id, t)
    /\ devices' = (devices \ DeviceById(tasks[t].device.id)) \cup {Detached(tasks[t].device)}
    /\ tasks' = [tasks EXCEPT ![t].pc = "udc_getSession", ![t].connected = FALSE,
                              ![t].device = Detached(tasks[t].device)]
    /\ UNCHANGED <<session, nextDeviceId, deviceSockets, rooms, connOpen, ledger>>

\* this.deviceSockets.delete(client.id); emit('device_disconnected')
HdCleanup(t) ==
    /\ tasks[t].pc = "hd_cleanup"
    /\ deviceSockets' = [deviceSockets EXCEPT ![tasks[t].conn] = NoInfo]
    /\ tasks' = [tasks EXCEPT
                   ![t] = Finished(t, Emit(t, [ev |-> "device_disconnected",
                                               to |-> Subscribers,
                                               deviceId |-> tasks[t].device.id]))]
    /\ UNCHANGED <<session, devices, nextDeviceId, rooms, connOpen, ledger>>

----------------------------------------------------------------------------
(* SessionService.updateSessionStatus *)

WithStatus_unchanged(s, status) == s

WithStatus(s, status) ==
    [s EXCEPT !.status = status,
              !.startedAt = IF status = "RECORDING" THEN TRUE ELSE @,
              !.completedAt = IF status = "COMPLETED" THEN TRUE ELSE @]

\* const session = await this.getSession(sessionId); a NotFoundException goes
\* to the handler's catch: client.emit('error')
UssGetSession(t) ==
    /\ tasks[t].pc = "uss_getSession"
    /\ tasks' = IF SessionExists(tasks[t].sid)
                THEN [tasks EXCEPT ![t].pc = "uss_save", ![t].sess = session]
                ELSE [tasks EXCEPT ![t] =
                        Catch(t, "Session not found")]
    /\ UNCHANGED <<session, devices, nextDeviceId, deviceSockets, rooms, connOpen, ledger>>

\* session.status = status; await this.sessionRepository.save(session)
UssSave(t) ==
    /\ tasks[t].pc = "uss_save"
    /\ session' = WithStatus(tasks[t].sess, tasks[t].status)
    /\ tasks' = [tasks EXCEPT
                   ![t].pc = CASE tasks[t].kind = "start" -> "sr_getDevices"
                               [] tasks[t].kind = "stop" -> "st_emit"
                               [] tasks[t].kind = "upload_completed" -> "uc_emitCompleted"
                               [] OTHER -> "gn_query",
                   ![t].sess = NoSession]
    /\ UNCHANGED <<devices, nextDeviceId, deviceSockets, rooms, connOpen, ledger>>

----------------------------------------------------------------------------
(* SyncGateway.handleStartRecording *)

HandleStartRecording(t, k, c, sid, label, dist) ==
    /\ MayStart(t, k)
    /\ connOpen[c]
    /\ tasks' = [tasks EXCEPT ![t] =
                   [IdleTask EXCEPT !.pc = "uss_getSession", !.kind = "start", !.conn = c,
                                    !.sid = sid, !.status = "RECORDING",
                                    !.label = label, !.dist = dist]]
    /\ UNCHANGED <<session, devices, nextDeviceId, deviceSockets, rooms, connOpen, ledger>>

\* SessionService.getSessionDevices: find({ where: { sessionId } })
GetSessionDevices(sid) == {d \in devices : d.sessionId = sid}

\* the orders in which a find may return the rows
Orderings(S) ==
    {q \in [1..Cardinality(S) -> S] : \A i, j \in 1..Cardinality(S) : i # j => q[i] # q[j]}

\* const devices = await getSessionDevices(sessionId); const timestamp = Date.now()
SrGetDevices(t) ==
    /\ tasks[t].pc = "sr_getDevices"
    /\ \E q \in Orderings(GetSessionDevices(tasks[t].sid)) :
          tasks' = [tasks EXCEPT ![t].pc = IF Len(q) = 0 THEN "sr_emit" ELSE "sr_createRecording",
                                 ![t].devs = q, ![t].ts = now]
    /\ UNCHANGED <<session, devices, nextDeviceId, deviceSockets, rooms, connOpen, ledger>>

\* the startTimestamp handed to createRecording
StartTimestamp(t) == tasks[t].ts

\* SessionService.createRecording for the next device of the loop
SrCreateRecording(t) ==
    /\ tasks[t].pc = "sr_createRecording"
    /\ LET device == tasks[t].devs[Len(tasks[t].recs) + 1]
           recording ==
               [id |-> nextRecordingId, sessionId |-> tasks[t].sid, deviceId |-> device.id,
                deviceType |-> device.deviceType, postureLabel |-> tasks[t].label,
                distance |-> tasks[t].dist, startTimestamp |-> StartTimestamp(t),
                uploadStatus |-> "PENDING"]
       IN
         /\ recordings' = recordings \cup {recording}
         /\ nextRecordingId' = nextRecordingId + 1
         /\ tasks' = [tasks EXCEPT
                        ![t].recs = Append(@, [recordingId |-> recording.id,
                                               deviceId |-> device.id,
                                               deviceType |-> device.deviceType]),
                        ![t].pc = IF Len(tasks[t].recs) + 1 = Len(tasks[t].devs)
                                  THEN "sr_emit" ELSE "sr_createRecording"]
    /\ UNCHANGED <<session, devices, nextDeviceId, deviceSockets, rooms, connOpen, now,
                   announced, sessionCodes, created>>

\* the timestamp of the start_recording payload
BroadcastTimestamp_atEmit(t) == now

BroadcastTimestamp(t) == tasks[t].ts

\* the recordings of the start_recording payload
BroadcastRecordings_first(t) == SubSeq(tasks[t].recs, 1, 1)

BroadcastRecordings(t) == tasks[t].recs

\* this.server.to(sessionId).emit('start_recording', ...)
SrEmit(t) ==
    /\ tasks[t].pc = "sr_emit"
    /\ tasks' = [tasks EXCEPT
                   ![t].pc = "done",
                   ![t].out = Emit(t, [ev |-> "start_recording", to |-> Subscribers,
                                       postureLabel |-> tasks[t].label,
                                       timestamp |-> BroadcastTimestamp(t),
                                       recordings |-> BroadcastRecordings(t)])]
    /\ UNCHANGED <<session, devices, nextDeviceId, deviceSockets, rooms, connOpen, ledger>>

----------------------------------------------------------------------------
(* SyncGateway.handleStopRecording *)

\* const timestamp = Date.now()
HandleStopRecording(t, k, c, sid) ==
    /\ MayStart(t, k)
    /\ connOpen[c]
    /\ tasks' = [tasks EXCEPT ![t] =
                   [IdleTask EXCEPT !.pc = "uss_getSession", !.kind = "stop", !.conn = c,
                                    !.sid = sid, !.status = "UPLOADING", !.ts = now]]
    /\ UNCHANGED <<session, devices, nextDeviceId, deviceSockets, rooms, connOpen, ledger>>

\* this.server.to(sessionId).emit('stop_recording', { timestamp })
StEmit(t) ==
    /\ tasks[t].pc = "st_emit"
    /\ tasks' = [tasks EXCEPT
                   ![t] = Finished(t, Emit(t, [ev |-> "stop_recording", to |-> Subscribers,
                                               timestamp |-> tasks[t].ts]))]
    /\ UNCHANGED <<session, devices, nextDeviceId, deviceSockets, rooms, connOpen, ledger>>

----------------------------------------------------------------------------
(* The recordings table as SessionService queries it *)

\* recordingRepository.findOne({ where: { id } })
RecordingById(id) == {r \in recordings : r.id = id}

SessionRecordings(sid) == {r \in recordings : r.sessionId = sid}

\* find({ where: { sessionId, postureLabel, distance } })
StepRecordings(sid, label, dist) ==
    {r \in SessionRecordings(sid) : r.postureLabel = label /\ r.distance = dist}

CombinationsOf(rows) == {<<r.postureLabel, r.distance>> : r \in rows}

\* only the combinations uploaded by both devices
CompletedCombinations_uploadedOnly(sid) ==
    LET rows == {r \in SessionRecordings(sid) : r.uploadStatus = "COMPLETED"}
    IN  {c \in CombinationsOf(rows) :
            Cardinality({r.deviceType : r \in {q \in rows : <<q.postureLabel, q.distance>> = c}}) = 2}

\* getNextPostureStep's completedCombinations: upload_status IN (UPLOADING,
\* COMPLETED), GROUP BY posture_label, distance
\* HAVING COUNT(DISTINCT device_type) = 2
CompletedCombinations(sid) ==
    LET rows == {r \in SessionRecordings(sid) : r.uploadStatus \in {"UPLOADING", "COMPLETED"}}
    IN  {c \in CombinationsOf(rows) :
            Cardinality({r.deviceType : r \in {q \in rows : <<q.postureLabel, q.distance>> = c}}) = 2}

LatestRecordings_anyRow(sid) == SessionRecordings(sid)

\* orderBy('recording.created_at', 'DESC').getOne(): rows are created one
\* INSERT after the other, so the order of created_at is the order of the ids
LatestRecordings(sid) ==
    {r \in SessionRecordings(sid) : \A q \in SessionRecordings(sid) : q.id <= r.id}

CurrentDistances_nom(sid) == {Distances[1]}

\* latestRecording?.distance || 'nom'
CurrentDistances(sid) ==
    IF SessionRecordings(sid) = {}
    THEN {Distances[1]}
    ELSE {r.distance : r \in LatestRecordings(sid)}

\* postureStepRepository.find({ where: { isActive: true }, order: { stepOrder: 'ASC' } })
\* (the seeded steps are all active)
AllSteps == Catalog

Min(S) == CHOOSE i \in S : \A j \in S : i <= j

\* getNextPostureStep from the current distance on
NextPostureStep(sid, currentPostureLabel, currentDistance) ==
    LET completedCombinations == CompletedCombinations(sid)
        completedAt(d) == {c \in completedCombinations : c[2] = d}
        completedAtCurrentDistance == {c[1] : c \in completedAt(currentDistance)}
        excludedAtCurrentDistance ==
            IF currentPostureLabel # NoHint
            THEN completedAtCurrentDistance \cup {currentPostureLabel}
            ELSE completedAtCurrentDistance
        next == {i \in 1..Len(AllSteps) : AllSteps[i] \notin excludedAtCurrentDistance}
        totalSteps == Len(AllSteps)
    IN  IF next # {}
        THEN [step |-> AllSteps[Min(next)], distance |-> currentDistance]
        ELSE IF currentDistance = "nom" /\ Cardinality(completedAt("nom")) >= totalSteps
        THEN [step |-> AllSteps[1], distance |-> "close"]
        ELSE IF currentDistance = "close" /\ Cardinality(completedAt("close")) >= totalSteps
        THEN [step |-> AllSteps[1], distance |-> "far"]
        ELSE IF currentDistance = "far" /\ Cardinality(completedAt("far")) >= totalSteps
        THEN [step |-> NoStep, distance |-> currentDistance]
        ELSE [step |-> AllSteps[1], distance |-> currentDistance]

\* SessionService.getNextPostureStep: the results it may return
GetNextPostureStep(sid, currentPostureLabel) ==
    {NextPostureStep(sid, currentPostureLabel, d) : d \in CurrentDistances(sid)}

\* checkCurrentStepRecordingsCompleted: stepComplete
StepComplete_allCompleted(recording) ==
    \A r \in StepRecordings(recording.sessionId, recording.postureLabel, recording.distance) :
        r.uploadStatus = "COMPLETED"

StepComplete(recording) ==
    LET stepRecordings ==
            StepRecordings(recording.sessionId, recording.postureLabel, recording.distance)
    IN  /\ Cardinality(stepRecordings) = 2
        /\ \A r \in stepRecordings : r.uploadStatus = "COMPLETED"

\* checkCurrentStepRecordingsCompleted's completedCombinations: upload_status =
\* COMPLETED, GROUP BY posture_label, distance HAVING COUNT(*) = 2
CompletedPairs(sid) ==
    LET rows == {r \in SessionRecordings(sid) : r.uploadStatus = "COMPLETED"}
    IN  {c \in CombinationsOf(rows) :
            Cardinality({q \in rows : <<q.postureLabel, q.distance>> = c}) = 2}

\* totalSteps = await postureStepRepository.count(); totalSteps * 3
TotalCombinations == Len(Catalog) * 3

AllStepsComplete(sid) == Cardinality(CompletedPairs(sid)) >= TotalCombinations

----------------------------------------------------------------------------

(* SessionService.updateRecordingUploadStatus *)

WithUploadStatus_keeps(recording, status) == recording

\* recording.uploadStatus = status
WithUploadStatus(recording, status) == [recording EXCEPT !.uploadStatus = status]

\* const recording = await this.getRecording(recordingId): NotFoundException
\* when there is no such row
UrsGetRecording(t) ==
    /\ tasks[t].pc = "urs_getRecording"
    /\ tasks' = IF RecordingById(tasks[t].rid) = {}
                THEN [tasks EXCEPT ![t] = Catch(t, "Recording not found")]
                ELSE [tasks EXCEPT ![t].pc = "urs_save",
                                   ![t].rec = CHOOSE r \in RecordingById(tasks[t].rid) : TRUE]
    /\ UNCHANGED <<session, devices, nextDeviceId, deviceSockets, rooms, connOpen, ledger>>

\* await this.recordingRepository.save(recording); then the caller goes on:
\* handleUploadStarted returns, handleUploadCompleted reads the recording,
\* handleConfirmUpload takes the next pending recording or broadcasts
UrsSave(t) ==
    /\ tasks[t].pc = "urs_save"
    /\ recordings' = {r \in recordings : r.id # tasks[t].rec.id}
                        \cup {WithUploadStatus(tasks[t].rec, tasks[t].status)}
    /\ tasks' =
          CASE tasks[t].kind = "upload_started" ->
                 [tasks EXCEPT ![t] = Finished(t, tasks[t].out)]
            [] tasks[t].kind = "upload_completed" ->
                 [tasks EXCEPT ![t].pc = "uc_getRecording", ![t].rec = NoRecording]
            [] OTHER ->
                 IF tasks[t].recs = <<>>
                 THEN [tasks EXCEPT ![t].pc = "cu_emit", ![t].rec = NoRecording,
                                    ![t].rid = NoRecordingId]
                 ELSE [tasks EXCEPT ![t].pc = "urs_getRecording", ![t].rec = NoRecording,
                                    ![t].rid = Head(tasks[t].recs),
                                    ![t].recs = Tail(tasks[t].recs)]
    /\ UNCHANGED <<session, devices, nextDeviceId, deviceSockets, rooms, connOpen,
                   nextRecordingId, now, announced, sessionCodes, created>>

----------------------------------------------------------------------------
(* SyncGateway.handleUploadStarted *)

HandleUploadStarted(t, k, c, rid) ==
    /\ MayStart(t, k)
    /\ connOpen[c]
    /\ tasks' = [tasks EXCEPT ![t] =
                   [IdleTask EXCEPT !.pc = "urs_getRecording", !.kind = "upload_started",
                                    !.conn = c, !.rid = rid, !.status = "UPLOADING"]]
    /\ UNCHANGED <<session, devices, nextDeviceId, deviceSockets, rooms, connOpen, ledger>>

----------------------------------------------------------------------------
(* SyncGateway.handleUploadCompleted *)

HandleUploadCompleted(t, k, c, rid) ==
    /\ MayStart(t, k)
    /\ connOpen[c]
    /\ tasks' = [tasks EXCEPT ![t] =
                   [IdleTask EXCEPT !.pc = "urs_getRecording", !.kind = "upload_completed",
                                    !.conn = c, !.rid = rid, !.status = "COMPLETED"]]
    /\ UNCHANGED <<session, devices, nextDeviceId, deviceSockets, rooms, connOpen, ledger>>

\* const recording = await this.sessionService.getRecording(recordingId)
UcGetRecording(t) ==
    /\ tasks[t].pc = "uc_getRecording"
    /\ tasks' = IF RecordingById(tasks[t].rid) = {}
                THEN [tasks EXCEPT ![t] = Catch(t, "Recording not found")]
                ELSE [tasks EXCEPT ![t].pc = "uc_checkStep",
                                   ![t].rec = CHOOSE r \in RecordingById(tasks[t].rid) : TRUE]
    /\ UNCHANGED <<session, devices, nextDeviceId, deviceSockets, rooms, connOpen, ledger>>

\* checkCurrentStepRecordingsCompleted: findOne by id, then the find of the
\* recordings of its posture step and distance
UcCheckStep(t) ==
    /\ tasks[t].pc = "uc_checkStep"
    /\ tasks' = IF RecordingById(tasks[t].rid) = {}
                THEN [tasks EXCEPT ![t] = Catch(t, "Recording not found")]
                ELSE [tasks EXCEPT
                        ![t].pc = "uc_checkAll",
                        ![t].stepComplete =
                            StepComplete(CHOOSE r \in RecordingById(tasks[t].rid) : TRUE)]
    /\ UNCHANGED <<session, devices, nextDeviceId, deviceSockets, rooms, connOpen, ledger>>

\* checkCurrentStepRecordingsCompleted: the completed combinations, the count
\* of the posture steps
UcCheckAll(t) ==
    /\ tasks[t].pc = "uc_checkAll"
    /\ tasks' = [tasks EXCEPT ![t].pc = "uc_emit",
                              ![t].allStepsComplete = AllStepsComplete(tasks[t].rec.sessionId)]
    /\ UNCHANGED <<session, devices, nextDeviceId, deviceSockets, rooms, connOpen, ledger>>

\* if (stepComplete) emit 'recording_uploaded'; if (allStepsComplete)
\* updateSessionStatus(recording.sessionId, COMPLETED)
UcEmit(t) ==
    /\ tasks[t].pc = "uc_emit"
    /\ tasks' =
          IF ~tasks[t].stepComplete
          THEN [tasks EXCEPT ![t].pc = "done"]
          ELSE LET out == Emit(t, [ev |-> "recording_uploaded",
                                   to |-> Room(tasks[t].rec.sessionId),
                                   recordingId |-> tasks[t].rid,
                                   postureLabel |-> tasks[t].rec.postureLabel])
               IN  IF tasks[t].allStepsComplete
                   THEN [tasks EXCEPT ![t].pc = "uss_getSession", ![t].out = out,
                                      ![t].sid = tasks[t].rec.sessionId,
                                      ![t].status = "COMPLETED"]
                   ELSE [tasks EXCEPT ![t].pc = "done", ![t].out = out]
    /\ UNCHANGED <<session, devices, nextDeviceId, deviceSockets, rooms, connOpen, ledger>>

\* emit 'session_completed'
UcEmitCompleted(t) ==
    /\ tasks[t].pc = "uc_emitCompleted"
    /\ tasks' = [tasks EXCEPT
                   ![t].pc = "done",
                   ![t].out = Emit(t, [ev |-> "session_completed", to |-> Room(tasks[t].sid),
                                       sessionId |-> tasks[t].sid])]
    /\ UNCHANGED <<session, devices, nextDeviceId, deviceSockets, rooms, connOpen, ledger>>

----------------------------------------------------------------------------

(* SyncGateway.handleConfirmUpload *)

HandleConfirmUpload(t, k, c, sid, label, dist) ==
    /\ MayStart(t, k)
    /\ connOpen[c]
    /\ tasks' = [tasks EXCEPT ![t] =
                   [IdleTask EXCEPT !.pc = "cu_getPending", !.kind = "confirm_upload",
                                    !.conn = c, !.sid = sid, !.label = label, !.dist = dist,
                                    !.status = "UPLOADING"]]
    /\ UNCHANGED <<session, devices, nextDeviceId, deviceSockets, rooms, connOpen, ledger>>

\* every PENDING recording of the session, whatever the payload names
PendingRecordings_all(sid, label, dist) ==
    {r \in SessionRecordings(sid) : r.uploadStatus = "PENDING"}

\* only the first of the pending recordings
PendingRecordings_first(sid, label, dist) ==
    LET pending == {r \in StepRecordings(sid, label, dist) : r.uploadStatus = "PENDING"}
    IN  {r \in pending : \A q \in pending : r.id <= q.id}

PendingRecordings_none(sid, label, dist) == {}

\* getPendingRecordingsForPostureDistance when the payload has postureLabel
\* and distance, getPendingRecordingsForSession otherwise
PendingRecordings(sid, label, dist) ==
    IF label # NoHint /\ dist # NoHint
    THEN {r \in StepRecordings(sid, label, dist) : r.uploadStatus = "PENDING"}
    ELSE {r \in SessionRecordings(sid) : r.uploadStatus = "PENDING"}

\* pendingRecordings = await ...; the loop starts with its first recording
CuGetPending(t) ==
    /\ tasks[t].pc = "cu_getPending"
    /\ \E q \in Orderings({r.id : r \in PendingRecordings(tasks[t].sid, tasks[t].label,
                                                         tasks[t].dist)}) :
          tasks' = IF Len(q) = 0
                   THEN [tasks EXCEPT ![t].pc = "cu_emit"]
                   ELSE [tasks EXCEPT ![t].pc = "urs_getRecording", ![t].rid = q[1],
                                      ![t].recs = [i \in 1..(Len(q) - 1) |-> q[i + 1]]]
    /\ UNCHANGED <<session, devices, nextDeviceId, deviceSockets, rooms, connOpen, ledger>>

\* the handler goes on to the sequencer without the acknowledgement
CuEmit_noAck(t) ==
    /\ tasks[t].pc = "cu_emit"
    /\ tasks' = [tasks EXCEPT ![t].pc = "gn_query"]
    /\ UNCHANGED <<session, devices, nextDeviceId, deviceSockets, rooms, connOpen, ledger>>

\* this.server.to(sessionId).emit('confirm_upload')
CuEmit(t) ==
    /\ tasks[t].pc = "cu_emit"
    /\ tasks' = [tasks EXCEPT
                   ![t].pc = "gn_query",
                   ![t].out = Emit(t, [ev |-> "confirm_upload", to |-> Room(tasks[t].sid)])]
    /\ UNCHANGED <<session, devices, nextDeviceId, deviceSockets, rooms, connOpen, ledger>>

----------------------------------------------------------------------------
(* SessionService.getNextPostureStep, called by handleConfirmUpload,       *)
(* handleRequestNextStep and handleReadyForNext.  Its three queries only   *)
(* read; the handlers that call it run one at a time in every              *)
(* specification below, so they are one step.                              *)

GnQuery(t) ==
    /\ tasks[t].pc = "gn_query"
    /\ \E result \in GetNextPostureStep(tasks[t].sid, tasks[t].label) :
          tasks' = [tasks EXCEPT ![t].pc = "gn_emit", ![t].result = result]
    /\ UNCHANGED <<session, devices, nextDeviceId, deviceSockets, rooms, connOpen, ledger>>

\* the next_step_ready payload: { step, distance } from handleConfirmUpload
\* and handleRequestNextStep, { step: nextStep, timestamp } with the whole
\* result as step from handleReadyForNext
NextStepReady(t) ==
    IF tasks[t].kind = "ready_for_next"
    THEN [ev |-> "next_step_ready", to |-> Room(tasks[t].sid), step |-> tasks[t].result]
    ELSE [ev |-> "next_step_ready", to |-> Room(tasks[t].sid),
          step |-> tasks[t].result.step, distance |-> tasks[t].result.distance]

\* this.server.to(sessionId).emit('next_step_ready', ...); the clients of the
\* room take the step and distance of the payload as the next to record
GnEmit(t) ==
    /\ tasks[t].pc = "gn_emit"
    /\ tasks' = [tasks EXCEPT ![t].pc = "done", ![t].out = Emit(t, NextStepReady(t))]
    /\ announced' = IF tasks[t].kind # "ready_for_next" /\ Room(tasks[t].sid) # {}
                    THEN tasks[t].result
                    ELSE announced
    /\ UNCHANGED <<session, devices, nextDeviceId, deviceSockets, rooms, connOpen,
                   recordings, nextRecordingId, now, sessionCodes, created>>

----------------------------------------------------------------------------
(* SyncGateway.handleRequestNextStep *)

HandleRequestNextStep(t, k, c, sid, currentPostureLabel) ==
    /\ MayStart(t, k)
    /\ connOpen[c]
    /\ tasks' = [tasks EXCEPT ![t] =
                   [IdleTask EXCEPT !.pc = "gn_query", !.kind = "request_next_step",
                                    !.conn = c, !.sid = sid, !.label = currentPostureLabel]]
    /\ UNCHANGED <<session, devices, nextDeviceId, deviceSockets, rooms, connOpen, ledger>>

----------------------------------------------------------------------------
(* PostureController.getNextPosture: GET api/postures/:sessionId/next *)

\* what reading a property an object does not have gives
Undefined == "undefined"

\* object[name]
Property(object, name) == IF name \in DOMAIN object THEN object[name] ELSE Undefined

\* !step, of the object { step, distance } getNextPostureStep resolves to
IsFalsy(object) == FALSE

GetNextPosture(t, k, sid) ==
    /\ MayStart(t, k)
    /\ tasks' = [tasks EXCEPT ![t] =
                   [IdleTask EXCEPT !.pc = "gp_query", !.kind = "get_next_posture",
                                    !.sid = sid, !.label = NoHint]]
    /\ UNCHANGED <<session, devices, nextDeviceId, deviceSockets, rooms, connOpen, ledger>>

\* const step = await this.sessionService.getNextPostureStep(sessionId)
GpQuery(t) ==
    /\ tasks[t].pc = "gp_query"
    /\ \E result \in GetNextPostureStep(tasks[t].sid, tasks[t].label) :
          tasks' = [tasks EXCEPT ![t].pc = "gp_respond", ![t].result = result]
    /\ UNCHANGED <<session, devices, nextDeviceId, deviceSockets, rooms, connOpen, ledger>>

\* the body of the response; of the fields of step, postureLabel
NextPostureResponse(step) ==
    IF IsFalsy(step)
    THEN [ev |-> "GET next", to |-> {}, completed |-> TRUE, step |-> NoStep]
    ELSE [ev |-> "GET next", to |-> {}, completed |-> FALSE,
          step |-> [postureLabel |-> Property(step, "postureLabel")]]

\* if (!step) return { completed: true, step: null };
\* return { completed: false, step: {...} }
GpRespond(t) ==
    /\ tasks[t].pc = "gp_respond"
    /\ tasks' = [tasks EXCEPT ![t].pc = "done",
                              ![t].out = Emit(t, NextPostureResponse(tasks[t].result))]
    /\ UNCHANGED <<session, devices, nextDeviceId, deviceSockets, rooms, connOpen, ledger>>

----------------------------------------------------------------------------

(* SyncGateway.handleReadyForNext *)

HandleReadyForNext(t, k, c, sid) ==
    /\ MayStart(t, k)
    /\ connOpen[c]
    /\ tasks' = [tasks EXCEPT ![t] =
                   [IdleTask EXCEPT !.pc = "uss_getSession", !.kind = "ready_for_next",
                                    !.conn = c, !.sid = sid, !.status = "READY"]]
    /\ UNCHANGED <<session, devices, nextDeviceId, deviceSockets, rooms, connOpen, ledger>>

----------------------------------------------------------------------------
(* SyncGateway.handleConfirmRerecord and                                   *)
(* SessionService.deleteRecordingsByPostureAndDistance                     *)

HandleConfirmRerecord(t, k, c, sid, rid) ==
    /\ MayStart(t, k)
    /\ connOpen[c]
    /\ tasks' = [tasks EXCEPT ![t] =
                   [IdleTask EXCEPT
                      !.pc = IF rid = NoRecordingId THEN "cr_emit" ELSE "cr_getRecording",
                      !.kind = "confirm_rerecord", !.conn = c, !.sid = sid, !.rid = rid]]
    /\ UNCHANGED <<session, devices, nextDeviceId, deviceSockets, rooms, connOpen, ledger>>

\* const recording = await this.sessionService.getRecording(recordingId)
CrGetRecording(t) ==
    /\ tasks[t].pc = "cr_getRecording"
    /\ tasks' = IF RecordingById(tasks[t].rid) = {}
                THEN [tasks EXCEPT ![t] = Catch(t, "Recording not found")]
                ELSE [tasks EXCEPT ![t].pc = "cr_delete",
                                   ![t].rec = CHOOSE r \in RecordingById(tasks[t].rid) : TRUE]
    /\ UNCHANGED <<session, devices, nextDeviceId, deviceSockets, rooms, connOpen, ledger>>

Deleted_byLabel(recording, r) ==
    /\ r.sessionId = recording.sessionId
    /\ r.postureLabel = recording.postureLabel

\* recordingRepository.delete({ sessionId, postureLabel, distance })
Deleted(recording, r) ==
    /\ r.sessionId = recording.sessionId
    /\ r.postureLabel = recording.postureLabel
    /\ r.distance = recording.distance

\* await deleteRecordingsByPostureAndDistance(recording.sessionId,
\* recording.postureLabel, recording.distance)
CrDelete(t) ==
    /\ tasks[t].pc = "cr_delete"
    /\ recordings' = {r \in recordings : ~Deleted(tasks[t].rec, r)}
    /\ tasks' = [tasks EXCEPT ![t].pc = "cr_emit"]
    /\ UNCHANGED <<session, devices, nextDeviceId, deviceSockets, rooms, connOpen,
                   nextRecordingId, now, announced, sessionCodes, created>>

\* this.server.to(sessionId).emit('confirm_rerecord')
CrEmit(t) ==
    /\ tasks[t].pc = "cr_emit"
    /\ tasks' = [tasks EXCEPT
                   ![t].pc = "done",
                   ![t].out = Emit(t, [ev |-> "confirm_rerecord", to |-> Room(tasks[t].sid)])]
    /\ UNCHANGED <<session, devices, nextDeviceId, deviceSockets, rooms, connOpen, ledger>>

----------------------------------------------------------------------------

(* Time passes *)

Tick ==
    /\ now < MaxClock
    /\ now' = now + 1
    /\ UNCHANGED <<session, devices, nextDeviceId, deviceSockets, rooms, connOpen,
                   recordings, nextRecordingId, announced, sessionCodes, created, tasks>>

----------------------------------------------------------------------------
(* The handler's promise settles: its slot is free again *)

Return(t) ==
    /\ tasks[t].pc = "done"
    /\ tasks' = [tasks EXCEPT ![t] = IdleTask]
    /\ UNCHANGED <<session, devices, nextDeviceId, deviceSockets, rooms, connOpen, ledger>>

----------------------------------------------------------------------------
(* Specifications *)

Init ==
    /\ session = NoSession
    /\ devices = {}
    /\ nextDeviceId = 1
    /\ deviceSockets = [c \in Conns |-> NoInfo]
    /\ rooms = {}
    /\ connOpen = [c \in Conns |-> TRUE]
    /\ recordings = {}
    /\ nextRecordingId = 1
    /\ now = 0
    /\ announced = FirstStep
    /\ sessionCodes = <<>>
    /\ created = "none"
    /\ tasks = [t \in Tasks |-> IdleTask]

JoinSteps(t) ==
    \/ JsGetSession(t)
    \/ JsFindDevice(t)
    \/ JsSaveDevice(t)
    \/ JsCommit(t)
    \/ UdcGetSession(t)
    \/ UdcSave(t)
    \/ HjRegister(t)
    \/ HjGetSession(t)
    \/ HjEmit(t)

DisconnectSteps(t) ==
    \/ DdFindDevice(t)
    \/ DdSaveDevice(t)
    \/ HdCleanup(t)

StartJoin(t, k, sids) ==
    \E c \in Conns, sid \in sids, role \in DeviceType :
        HandleJoinSession(t, k, c, sid, role)

AnyId == SessionIds \cup {MissingId}

StartRecordingSteps(t) ==
    \/ UssGetSession(t)
    \/ UssSave(t)
    \/ SrGetDevices(t)
    \/ SrCreateRecording(t)
    \/ SrEmit(t)

StartStartRecording(t, k, sids, labels, dists) ==
    /\ (nextRecordingId - 1) + Cardinality(devices) <= MaxRecordings
    /\ \E c \in Conns, sid \in sids, label \in labels, dist \in dists :
        HandleStartRecording(t, k, c, sid, label, dist)

StartStopRecording(t, k, sids) ==
    \E c \in Conns, sid \in sids : HandleStopRecording(t, k, c, sid)

StartDisconnect(t, k) == \E c \in Conns : HandleDisconnect(t, k, c)

\* join_session events only, handled one at a time
NextJoins ==
    \/ CreateSession
    \/ \E t \in Tasks : StartJoin(t, 1, AnyId) \/ JoinSteps(t) \/ Return(t)

SpecJoins == Init /\ [][NextJoins]_vars

\* join_session events only, handled concurrently; only then can an insert
\* meet the row another transaction inserted, and the transaction roll back
NextAttach ==
    \/ CreateSession
    \/ \E t \in Tasks :
          \/ StartJoin(t, 2, {"s1"})
          \/ JoinSteps(t)
          \/ JsRollback(t)
          \/ Return(t)

SpecAttach == Init /\ [][NextAttach]_vars

\* joins and disconnects, handled one at a time
Next ==
    \/ CreateSession
    \/ \E t \in Tasks :
          \/ StartJoin(t, 1, AnyId)
          \/ StartDisconnect(t, 1)
          \/ JoinSteps(t)
          \/ DisconnectSteps(t)
          \/ Return(t)

Spec == Init /\ [][Next]_vars

\* the same while time passes
NextDetach == Next \/ Tick

SpecDetach == Init /\ [][NextDetach]_vars

\* sessions are created, with any code, and joined
NextCreate ==
    \/ \E code \in Codes : CreateSessionWith(code)
    \/ \E t \in Tasks : StartJoin(t, 1, AnyId) \/ JoinSteps(t) \/ Return(t)

SpecCreate == Init /\ [][NextCreate]_vars

\* The state after createSession and the joins, one after the other, of the
\* desktop on connection 1 and, when both, of the mobile on connection 2.
AttachedSession(both) ==
    [NoSession EXCEPT !.exists = TRUE,
                      !.status = IF both THEN "READY" ELSE "WAITING_FOR_MOBILE",
                      !.desktopConnected = TRUE,
                      !.mobileConnected = both]

AttachedDevicesAre(both) ==
    /\ devices =
          {[id |-> 1, sessionId |-> "s1", deviceType |-> "desktop", socketId |-> 1,
            disconnectedAt |-> NoDate]}
             \cup (IF both
                   THEN {[id |-> 2, sessionId |-> "s1", deviceType |-> "mobile",
                          socketId |-> 2, disconnectedAt |-> NoDate]}
                   ELSE {})
    /\ nextDeviceId = IF both THEN 3 ELSE 2
    /\ deviceSockets =
          [c \in Conns |->
              IF c = 1 \/ (both /\ c = 2)
              THEN [sessionId |-> "s1", deviceId |-> c]
              ELSE NoInfo]
    /\ rooms = IF both THEN {1, 2} ELSE {1}
    /\ connOpen = [c \in Conns |-> TRUE]
    /\ sessionCodes = <<FirstCode>>
    /\ created = "persisted"
    /\ tasks = [t \in Tasks |-> IdleTask]

Attached(both) == session = AttachedSession(both) /\ AttachedDevicesAre(both)

InitRecord ==
    /\ \E both \in BOOLEAN : Attached(both)
    /\ recordings = {}
    /\ nextRecordingId = 1
    /\ now = 0
    /\ announced = FirstStep

\* from the desktop alone or both devices attached: disconnects,
\* start_recording and stop_recording, one at a time
NextRecord ==
    \/ Tick
    \/ \E t \in Tasks :
          \/ StartDisconnect(t, 1)
          \/ StartStartRecording(t, 1, SessionIds, {Catalog[1]}, {Distances[1], Distances[2]})
          \/ StartStopRecording(t, 1, SessionIds)
          \/ DisconnectSteps(t)
          \/ UdcGetSession(t)
          \/ UdcSave(t)
          \/ StartRecordingSteps(t)
          \/ StEmit(t)
          \/ Return(t)

SpecRecord == InitRecord /\ [][NextRecord]_vars

\* from both devices attached: disconnects, start_recording and
\* stop_recording, two handlers at a time
InitRace ==
    /\ Attached(TRUE)
    /\ recordings = {}
    /\ nextRecordingId = 1
    /\ now = 0
    /\ announced = FirstStep

NextRace ==
    \E t \in Tasks :
        \/ StartDisconnect(t, 2)
        \/ StartStartRecording(t, 2, {"s1"}, {Catalog[1]}, {Distances[1]})
        \/ StartStopRecording(t, 2, {"s1"})
        \/ DisconnectSteps(t)
        \/ UdcGetSession(t)
        \/ UdcSave(t)
        \/ StartRecordingSteps(t)
        \/ StEmit(t)
        \/ Return(t)

SpecRace == InitRace /\ [][NextRace]_vars

----------------------------------------------------------------------------
UploadSteps(t) ==
    \/ UrsGetRecording(t)
    \/ UrsSave(t)
    \/ UcGetRecording(t)
    \/ UcCheckStep(t)
    \/ UcCheckAll(t)
    \/ UcEmit(t)

NextStepSteps(t) ==
    \/ CuGetPending(t)
    \/ CuEmit(t)
    \/ GnQuery(t)
    \/ GnEmit(t)

RerecordSteps(t) ==
    \/ CrGetRecording(t)
    \/ CrDelete(t)
    \/ CrEmit(t)

RecordingIds == 1..MaxRecordings

StartUploadStarted(t, k, conns) ==
    \E c \in conns, rid \in RecordingIds : HandleUploadStarted(t, k, c, rid)

StartUploadCompleted(t, k, conns) ==
    \E c \in conns, rid \in RecordingIds : HandleUploadCompleted(t, k, c, rid)

StartConfirmUpload(t, k, conns, labels, dists) ==
    \E c \in conns, label \in labels, dist \in dists :
        HandleConfirmUpload(t, k, c, "s1", label, dist)

StartConfirmRerecord(t, k, conns) ==
    \E c \in conns, rid \in RecordingIds \cup {NoRecordingId} :
        HandleConfirmRerecord(t, k, c, "s1", rid)

StartRequestNextStep(t, k, conns, labels) ==
    \E c \in conns, label \in labels : HandleRequestNextStep(t, k, c, "s1", label)

StartReadyForNext(t, k, conns) == \E c \in conns : HandleReadyForNext(t, k, c, "s1")

CatalogLabels == {Catalog[i] : i \in 1..Len(Catalog)}

DistanceSet == {Distances[i] : i \in 1..Len(Distances)}

\* both devices attached and no recordings
InitLedger ==
    /\ Attached(TRUE)
    /\ recordings = {}
    /\ nextRecordingId = 1
    /\ now = 0
    /\ announced = FirstStep

\* from both devices attached: start_recording, confirm_upload,
\* confirm_rerecord, request_next_step and ready_for_next with any payload,
\* in any order, one at a time
NextSequencer ==
    \E t \in Tasks :
        \/ StartStartRecording(t, 1, {"s1"}, CatalogLabels, DistanceSet)
        \/ StartConfirmUpload(t, 1, {1}, CatalogLabels \cup {NoHint}, DistanceSet)
        \/ StartConfirmRerecord(t, 1, {1})
        \/ StartRequestNextStep(t, 1, {1}, CatalogLabels \cup {NoHint})
        \/ StartReadyForNext(t, 1, {1})
        \/ UssGetSession(t)
        \/ UssSave(t)
        \/ StartRecordingSteps(t)
        \/ UrsGetRecording(t)
        \/ UrsSave(t)
        \/ NextStepSteps(t)
        \/ RerecordSteps(t)
        \/ Return(t)

SpecSequencer == InitLedger /\ [][NextSequencer]_vars

\* from the desktop alone or both devices attached: start_recording of one
\* step at two distances, upload_started, upload_completed and
\* confirm_rerecord with any recording id, in any order, one at a time
InitUploads ==
    /\ \E both \in BOOLEAN : Attached(both)
    /\ recordings = {}
    /\ nextRecordingId = 1
    /\ now = 0
    /\ announced = FirstStep

NextUploads ==
    \E t \in Tasks :
        \/ StartStartRecording(t, 1, {"s1"}, {Catalog[1]}, {Distances[1], Distances[2]})
        \/ StartUploadStarted(t, 1, Conns)
        \/ StartUploadCompleted(t, 1, Conns)
        \/ StartConfirmRerecord(t, 1, Conns)
        \/ UssGetSession(t)
        \/ UssSave(t)
        \/ StartRecordingSteps(t)
        \/ UploadSteps(t)
        \/ RerecordSteps(t)
        \/ Return(t)

SpecUploads == InitUploads /\ [][NextUploads]_vars

\* The clients of the room follow the workflow: they begin recording the step
\* and distance last announced, stop, and confirm the upload of what they
\* recorded with its step and distance.
\* the recordings of a whole run: one per device, step and distance
WorkflowRows == 2 * Len(Catalog) * Len(Distances)

PendingRows == {r \in SessionRecordings("s1") : r.uploadStatus = "PENDING"}

ClientBegins(t, labels) ==
    /\ announced.step # NoStep
    /\ PendingRows = {}
    /\ nextRecordingId <= WorkflowRows + 2 * MaxRerecords
    /\ \E c \in Subscribers, label \in labels :
          HandleStartRecording(t, 1, c, "s1", label, announced.distance)

ClientStops(t) ==
    /\ PendingRows # {}
    /\ session.status = "RECORDING"
    /\ \E c \in Subscribers : HandleStopRecording(t, 1, c, "s1")

ClientConfirms(t) ==
    /\ session.status = "UPLOADING"
    /\ \E c \in Subscribers, r \in PendingRows :
          HandleConfirmUpload(t, 1, c, "s1", r.postureLabel, r.distance)

\* instead of confirming the upload, they confirm a re-record of it, with the
\* id of one of its recordings
ClientRerecords(t) ==
    /\ session.status = "UPLOADING"
    /\ (nextRecordingId - 1) - Cardinality(recordings) < 2 * MaxRerecords
    /\ \E c \in Subscribers, r \in PendingRows :
          HandleConfirmRerecord(t, 1, c, "s1", r.id)

WorkflowSteps(t) ==
    \/ UssGetSession(t)
    \/ UssSave(t)
    \/ StartRecordingSteps(t)
    \/ StEmit(t)
    \/ UrsGetRecording(t)
    \/ UrsSave(t)
    \/ NextStepSteps(t)
    \/ Return(t)

\* begin, stop, confirm_upload of what was last announced, over and over
NextWorkflow ==
    \E t \in Tasks :
        \/ ClientBegins(t, {announced.step})
        \/ ClientStops(t)
        \/ ClientConfirms(t)
        \/ WorkflowSteps(t)

SpecWorkflow == InitLedger /\ [][NextWorkflow]_vars

\* the same, with re-records
NextRerecord ==
    \E t \in Tasks :
        \/ ClientBegins(t, {announced.step})
        \/ ClientStops(t)
        \/ ClientConfirms(t)
        \/ ClientRerecords(t)
        \/ WorkflowSteps(t)
        \/ RerecordSteps(t)

SpecRerecord == InitLedger /\ [][NextRerecord]_vars

\* The state after the first combination was recorded by both devices and
\* stopped (session UPLOADING, uploadStatus PENDING) and then confirmed
\* (uploadStatus UPLOADING): the rows of the pair, in one of the two orders
\* of the devices.
RecordedPair(first, uploadStatus) ==
    {[id |-> IF role = first THEN 1 ELSE 2, sessionId |-> "s1",
      deviceId |-> IF role = "desktop" THEN 1 ELSE 2, deviceType |-> role,
      postureLabel |-> FirstStep.step, distance |-> FirstStep.distance,
      startTimestamp |-> 0, uploadStatus |-> uploadStatus] : role \in DeviceType}

Recorded(first, confirmed) ==
    /\ session = [AttachedSession(TRUE) EXCEPT !.status = "UPLOADING", !.startedAt = TRUE]
    /\ AttachedDevicesAre(TRUE)
    /\ recordings = RecordedPair(first, IF confirmed THEN "UPLOADING" ELSE "PENDING")
    /\ nextRecordingId = 3
    /\ announced = IF confirmed
                   THEN [step |-> Catalog[2], distance |-> Distances[1]]
                   ELSE FirstStep

InitUploadRace ==
    /\ \E first \in DeviceType, confirmed \in BOOLEAN : Recorded(first, confirmed)
    /\ now = 0

\* each device reports upload_completed for its recording, once, on its
\* connection
DeviceReportsUpload(t) ==
    \E r \in recordings :
        /\ r.uploadStatus # "COMPLETED"
        /\ \A u \in Tasks : tasks[u].rid # r.id
        /\ \E d \in DeviceById(r.deviceId) : HandleUploadCompleted(t, 2, d.socketId, r.id)

\* the two upload_completed handlers of a pair, concurrently
NextUploadRace ==
    \E t \in Tasks :
        \/ DeviceReportsUpload(t)
        \/ UploadSteps(t)

SpecUploadRace == InitUploadRace /\ [][NextUploadRace]_vars

\* each device uploads what was confirmed and reports upload_completed for
\* its recording on its connection
ClientUploads(t) ==
    \E r \in SessionRecordings("s1") :
        /\ r.uploadStatus = "UPLOADING"
        /\ \E d \in DeviceById(r.deviceId) : HandleUploadCompleted(t, 1, d.socketId, r.id)

\* the workflow with the uploads: the next recording begins when the last was
\* uploaded by both devices; once in the run the clients record a posture
\* that is no step of the catalog
NextSession ==
    \E t \in Tasks :
        \/ /\ \A r \in recordings : r.uploadStatus = "COMPLETED"
           /\ ClientBegins(t, IF \E r \in recordings : r.postureLabel = StrayLabel
                              THEN {announced.step}
                              ELSE {announced.step, StrayLabel})
        \/ ClientStops(t)
        \/ ClientConfirms(t)
        \/ ClientUploads(t)
        \/ WorkflowSteps(t)
        \/ UcGetRecording(t)
        \/ UcCheckStep(t)
        \/ UcCheckAll(t)
        \/ UcEmit(t)
        \/ UcEmitCompleted(t)

SpecSession == InitLedger /\ [][NextSession]_vars

\* the confirm_upload just handled is delivered once more, from any device of
\* the room, before anything else happens; the first handler's promise has
\* settled, its messages are kept to compare
ClientConfirmsAgain(t) ==
    \E u \in Tasks \ {t} :
        /\ tasks[u].kind = "confirm_upload"
        /\ tasks[u].pc = "done"
        /\ \E c \in Subscribers :
              HandleConfirmUpload(t, 2, c, tasks[u].sid, tasks[u].label, tasks[u].dist)

\* the workflow, every confirm_upload delivered once or twice
NextRedeliver ==
    \E t \in Tasks :
        \/ ClientBegins(t, {announced.step})
        \/ ClientStops(t)
        \/ ClientConfirms(t)
        \/ ClientConfirmsAgain(t)
        \/ WorkflowSteps(t)

SpecRedeliver == InitLedger /\ [][NextRedeliver]_vars

\* the workflow, and the next posture asked over REST at any point of it
NextRest ==
    \E t \in Tasks :
        \/ ClientBegins(t, {announced.step})
        \/ ClientStops(t)
        \/ ClientConfirms(t)
        \/ WorkflowSteps(t)
        \/ GetNextPosture(t, 1, "s1")
        \/ GpQuery(t)
        \/ GpRespond(t)

SpecRest == InitLedger /\ [][NextRest]_vars

\* The state at the end of a whole run of the workflow: every step recorded
\* at every distance by both devices, confirmed and uploaded; the session
\* COMPLETED.
CompletedRows ==
    {[id |-> 2 * (Len(Catalog) * (d - 1) + (i - 1)) + (IF role = "desktop" THEN 1 ELSE 2),
      sessionId |-> "s1", deviceId |-> IF role = "desktop" THEN 1 ELSE 2,
      deviceType |-> role, postureLabel |-> Catalog[i], distance |-> Distances[d],
      startTimestamp |-> 0, uploadStatus |-> "COMPLETED"] :
        i \in 1..Len(Catalog), d \in 1..Len(Distances), role \in DeviceType}

Completed ==
    /\ session = [AttachedSession(TRUE) EXCEPT !.status = "COMPLETED", !.startedAt = TRUE,
                                               !.completedAt = TRUE]
    /\ AttachedDevicesAre(TRUE)
    /\ recordings = CompletedRows
    /\ nextRecordingId = WorkflowRows + 1
    /\ now = 0
    /\ announced = [step |-> NoStep, distance |-> Distances[Len(Distances)]]

\* from no session at all, or from the completed session: joins, disconnects,
\* start_recording and stop_recording, one at a time
InitFrame == Init \/ Completed

NextFrame ==
    \/ CreateSession
    \/ \E t \in Tasks :
          \/ StartJoin(t, 1, AnyId)
          \/ StartDisconnect(t, 1)
          \/ StartStartRecording(t, 1, {"s1"}, {Catalog[1]}, {Distances[1]})
          \/ StartStopRecording(t, 1, {"s1"})
          \/ JoinSteps(t)
          \/ DisconnectSteps(t)
          \/ StartRecordingSteps(t)
          \/ StEmit(t)
          \/ Return(t)

SpecFrame == InitFrame /\ [][NextFrame]_vars

----------------------------------------------------------------------------

(* Claims *)

Flag(role) == IF role = "desktop" THEN session.desktopConnected ELSE session.mobileConnected

Quiescent == \A t \in Tasks : tasks[t].pc = "idle"

Reported(t, ev) == \E i \in 1..Len(tasks[t].out) : tasks[t].out[i].ev = ev

\* C1 (Spec): when joinSession returns for (S,R) on connection c2 and
\* the Device row it found carried the id c1 # c2 of the attach before it,
\* there is exactly one Device row for (S,R) and its socketId is c2.
C1_AttachTwice ==
    \A t \in Tasks :
        (/\ tasks[t].kind = "join"
         /\ tasks[t].pc = "hj_register"
         /\ tasks[t].prevSocket \notin {NoConn, tasks[t].conn})
        => /\ Cardinality(DeviceRows(tasks[t].sid, tasks[t].role)) = 1
           /\ \A d \in DeviceRows(tasks[t].sid, tasks[t].role) :
                 d.socketId = tasks[t].conn

C1_Witness ==
    \E t \in Tasks :
        /\ tasks[t].kind = "join"
        /\ tasks[t].pc = "hj_register"
        /\ tasks[t].prevSocket \notin {NoConn, tasks[t].conn}
        /\ \E d \in DeviceRows(tasks[t].sid, tasks[t].role) : d.socketId = tasks[t].conn

SameRoleJoinsDone ==
    /\ \A t \in Tasks : tasks[t].kind = "join" /\ tasks[t].pc = "done" /\ tasks[t].sid = "s1"
    /\ tasks[1].role = tasks[2].role
    /\ tasks[1].conn # tasks[2].conn

\* C2 (SpecAttach): there are never two Device rows for one (session, role);
\* and when two join_session handlers for the same (session, role) from two
\* connections have both ended, the socketId of the row is the connection of
\* one whose handler emitted joined_session.
C2_ConcurrentAttach ==
    /\ \A role \in DeviceType : Cardinality(DeviceRows("s1", role)) <= 1
    /\ SameRoleJoinsDone =>
          \A d \in DeviceRows("s1", tasks[1].role) :
              \E t \in Tasks : Reported(t, "joined_session") /\ d.socketId = tasks[t].conn

\* both found no row; one INSERT went through, the other hit the constraint
C2_Witness ==
    /\ SameRoleJoinsDone
    /\ \E t, u \in Tasks :
          /\ Reported(t, "joined_session")
          /\ \E i \in 1..Len(tasks[u].out) :
                /\ tasks[u].out[i].ev = "error"
                /\ tasks[u].out[i].message = "duplicate key"
          /\ \E d \in DeviceRows("s1", tasks[t].role) : d.socketId = tasks[t].conn

\* C3 (SpecAttach): once the desktop join and the mobile join, handled
\* concurrently, have both completed, both flags are true and the status is READY.
C3_BothJoined ==
    (/\ \A t \in Tasks : tasks[t].kind = "join" /\ tasks[t].pc = "done"
                            /\ Reported(t, "joined_session")
     /\ tasks[1].role # tasks[2].role)
    => /\ session.desktopConnected
       /\ session.mobileConnected
       /\ session.status = "READY"

\* C4 (SpecJoins): with joins handled one at a time from a new session, the
\* status is WAITING_FOR_MOBILE when the desktop has joined and the mobile has
\* not, and READY when both have joined, in either order.
C4_JoinStatus ==
    /\ (session.desktopConnected /\ ~session.mobileConnected)
          => session.status = "WAITING_FOR_MOBILE"
    /\ (session.desktopConnected /\ session.mobileConnected)
          => session.status = "READY"

\* the desktop joins last: the status goes from CREATED to READY
C4_Witness ==
    /\ session.status = "READY"
    /\ \E t \in Tasks : tasks[t].pc = "hj_register" /\ tasks[t].role = "desktop"
                          /\ tasks[t].isNew = FALSE /\ tasks[t].prevSocket = NoConn
                          /\ tasks[t].device.id = 2

\* C6 (Spec): with no handler mid-execution, a role's flag is true iff
\* its Device has a socketId and that connection is in deviceSockets; and the
\* disconnect of a connection that the device has since replaced leaves the
\* new socketId and the flag alone.
C6_FlagsMatchConnections ==
    /\ Quiescent =>
          \A role \in DeviceType :
              Flag(role) <=>
                  \E d \in DeviceRows("s1", role) :
                      d.socketId # NoConn /\ deviceSockets[d.socketId] # NoInfo
    /\ \A t \in Tasks :
          (/\ tasks[t].kind = "disconnect"
           /\ tasks[t].pc = "hd_cleanup"
           /\ tasks[t].prevSocket \notin {NoConn, tasks[t].conn})
          => /\ \A d \in DeviceById(tasks[t].device.id) : d.socketId = tasks[t].prevSocket
             /\ Flag(tasks[t].role)


\* C5 (SpecRace): a step of the disconnect handler taken while the status is
\* RECORDING or UPLOADING leaves the status RECORDING or UPLOADING.
C5_DisconnectKeepsStatus ==
    [][\A t \in Tasks :
          (/\ tasks[t].kind = "disconnect"
           /\ tasks'[t] # tasks[t]
           /\ session.status \in {"RECORDING", "UPLOADING"})
          => session'.status \in {"RECORDING", "UPLOADING"}]_vars

StartDone(t) ==
    /\ tasks[t].kind = "start"
    /\ tasks[t].pc = "done"
    /\ Reported(t, "start_recording")

\* the rows the handler t opened
Opened(t) ==
    {r \in recordings : \E i \in 1..Len(tasks[t].recs) : tasks[t].recs[i].recordingId = r.id}

StartBroadcasts(t) ==
    {i \in 1..Len(tasks[t].out) : tasks[t].out[i].ev = "start_recording"}

\* C7 (SpecRecord): a start_recording handled with a device list of size N
\* has created N Recording rows, one per device of the list, all with the same
\* startTimestamp and the postureLabel and distance of the event, and the
\* recordings of its broadcast are those N rows, one per device.
C7_PairIntegrity ==
    \A t \in Tasks :
        StartDone(t) =>
            LET N == Len(tasks[t].devs) IN
              /\ Len(tasks[t].recs) = N
              /\ Cardinality(Opened(t)) = N
              /\ \A r \in Opened(t) :
                    /\ r.postureLabel = tasks[t].label
                    /\ r.distance = tasks[t].dist
                    /\ \A q \in Opened(t) : q.startTimestamp = r.startTimestamp
              /\ \A i \in 1..N :
                    Cardinality({r \in Opened(t) : r.deviceId = tasks[t].devs[i].id}) = 1
              /\ \A m \in StartBroadcasts(t) :
                    LET list == tasks[t].out[m].recordings IN
                      /\ Len(list) = N
                      /\ {list[j].recordingId : j \in 1..Len(list)} = {r.id : r \in Opened(t)}
                      /\ \A i \in 1..N :
                            Cardinality({j \in 1..Len(list) :
                                            list[j].deviceId = tasks[t].devs[i].id}) = 1

C7_Witness ==
    \E t \in Tasks :
        /\ StartDone(t)
        /\ Len(tasks[t].devs) = 2
        /\ Cardinality(Opened(t)) = 2

\* C8 (SpecRecord): a start_recording event makes one broadcast; it goes to
\* every subscriber of the room, and its timestamp is the startTimestamp of
\* every Recording row the event opened.
C8_OneTimestamp ==
    \A t \in Tasks :
        StartDone(t) =>
            /\ Cardinality(StartBroadcasts(t)) = 1
            /\ \A m \in StartBroadcasts(t) :
                  /\ tasks[t].out[m].to = Subscribers
                  /\ \A r \in Opened(t) : r.startTimestamp = tasks[t].out[m].timestamp

\* two subscribers, two rows, and the clock has moved on since the capture
C8_Witness ==
    \E t \in Tasks :
        /\ StartDone(t)
        /\ Cardinality(Subscribers) = 2
        /\ Cardinality(Opened(t)) = 2
        /\ \A m \in StartBroadcasts(t) : tasks[t].out[m].timestamp < now

\* the devices attached to the session: those with a socketId
AttachedDevices(sid) == {d \in GetSessionDevices(sid) : d.socketId # NoConn}

\* C9 (SpecRecord): start_recording opens Recording rows for the attached
\* devices only: one row when one device is attached.
C9_OnlyAttached ==
    \A t \in Tasks :
        StartDone(t) =>
            /\ Cardinality(Opened(t)) = Cardinality(AttachedDevices(tasks[t].sid))
            /\ \A r \in Opened(t) : r.deviceId \in {d.id : d \in AttachedDevices(tasks[t].sid)}

Keys == {<<Catalog[i], Distances[j]>> : i \in 1..Len(Catalog), j \in 1..Len(Distances)}

RowsOfKey(key) ==
    {r \in recordings : r.sessionId = "s1" /\ r.postureLabel = key[1] /\ r.distance = key[2]}

\* C10 (SpecRecord): every (session, postureLabel, distance) has at most two
\* Recording rows and at most one per device role.
C10_PairPerKey ==
    \A key \in Keys :
        /\ Cardinality(RowsOfKey(key)) <= 2
        /\ \A role \in DeviceType :
              Cardinality({r \in RowsOfKey(key) : r.deviceType = role}) <= 1

\* the states InitRecord starts from are states of Spec
AttachedReached == Quiescent /\ (Attached(FALSE) \/ Attached(TRUE))

StopDone(t) ==
    /\ tasks[t].kind = "stop"
    /\ tasks[t].pc = "done"
    /\ Reported(t, "stop_recording")

\* C11 (SpecRecord): a start_recording handled with both devices attached has
\* opened two Recording rows and left the session RECORDING; a stop_recording
\* handled has left the session UPLOADING and made one stop_recording
\* broadcast, to the subscribers of the room.
C11_StartThenStop ==
    \A t \in Tasks :
        /\ (StartDone(t) /\ Cardinality(AttachedDevices(tasks[t].sid)) = 2)
              => /\ Cardinality(Opened(t)) = 2
                 /\ session.status = "RECORDING"
        /\ StopDone(t)
              => /\ session.status = "UPLOADING"
                 /\ Len(tasks[t].out) = 1
                 /\ tasks[t].out[1].to = Subscribers

\* the stop that follows a start with both devices attached
C11_Witness ==
    \E t \in Tasks :
        /\ StopDone(t)
        /\ Cardinality(AttachedDevices("s1")) = 2
        /\ Cardinality(Subscribers) = 2
        /\ Cardinality(recordings) = 2
        /\ session.startedAt

\* a call of getNextPostureStep has returned to the handler t
Sequenced(t) == tasks[t].pc = "gn_emit"

\* C12 (SpecSequencer): getNextPostureStep returns step = null if and only
\* if the completed combinations of the session cover every (step, distance)
\* of the catalog and the three distances.
C12_NullIffAllComplete ==
    \A t \in Tasks :
        Sequenced(t) =>
            (tasks[t].result.step = NoStep <=> Keys \subseteq CompletedCombinations(tasks[t].sid))

\* C13 (SpecSequencer): no step of a request_next_step handler changes a
\* Session, Device or Recording row, and the result it announces is the one
\* result getNextPostureStep has for the recordings, the catalog and the
\* currentPostureLabel of the request: a second call returns the same.
C13_SequencerPure ==
    [][\A t \in Tasks :
          (tasks[t].kind = "request_next_step" /\ tasks'[t] # tasks[t])
          => /\ session' = session
             /\ devices' = devices
             /\ recordings' = recordings
             /\ Sequenced(t)'
                   => \A again \in GetNextPostureStep(tasks[t].sid, tasks[t].label)' :
                         again = tasks'[t].result]_vars

\* a request with a currentPostureLabel, answered from a ledger with rows at
\* two distances
C13_Witness ==
    \E t \in Tasks :
        /\ tasks[t].kind = "request_next_step"
        /\ tasks[t].pc = "done"
        /\ tasks[t].label # NoHint
        /\ Reported(t, "next_step_ready")
        /\ Cardinality({r.distance : r \in recordings}) = 2

\* the handler t has just deleted the recordings of the recording it held
Rerecorded(t) == tasks[t].pc = "cr_delete" /\ tasks'[t].pc = "cr_emit"

\* C14 (SpecUploads): the step that runs deleteRecordingsByPostureAndDistance
\* for (S, step, dist) leaves no Recording row of (S, step, dist), so that
\* stepComplete is false for it and it is no completed combination of
\* getNextPostureStep; the rows of every other key are as they were.
C14_RerecordResets ==
    [][\A t \in Tasks :
          Rerecorded(t) =>
             LET recording == tasks[t].rec
                 ofKey(r) == /\ r.sessionId = recording.sessionId
                             /\ r.postureLabel = recording.postureLabel
                             /\ r.distance = recording.distance
             IN  /\ {r \in recordings' : ofKey(r)} = {}
                 /\ ~StepComplete(recording)'
                 /\ <<recording.postureLabel, recording.distance>>
                       \notin CompletedCombinations(recording.sessionId)'
                 /\ {r \in recordings' : ~ofKey(r)} = {r \in recordings : ~ofKey(r)}]_vars

\* two rows deleted of four, the rows of the other distance are still there
C14_Witness ==
    \E t \in Tasks :
        /\ tasks[t].pc = "cr_emit"
        /\ tasks[t].rec # NoRecording
        /\ nextRecordingId = 5
        /\ Cardinality(recordings) = 2
        /\ \A r \in recordings : r.distance # tasks[t].rec.distance
        /\ tasks[t].rec.uploadStatus = "COMPLETED"

\* the handler t has just deleted the recordings of the combination begun last
RerecordedLatest(t) ==
    /\ Rerecorded(t)
    /\ \A r \in LatestRecordings(tasks[t].rec.sessionId) :
          /\ r.postureLabel = tasks[t].rec.postureLabel
          /\ r.distance = tasks[t].rec.distance

\* what getNextPostureStep returns for the session of the recording of t, from
\* the recordings as they are, when called with one of hints
Returns(t, hints, result) ==
    \A hint \in hints :
        \A r \in GetNextPostureStep(tasks[t].rec.sessionId, hint) : r = result

Combination(n) ==
    [step |-> Catalog[((n - 1) % Len(Catalog)) + 1],
     distance |-> Distances[((n - 1) \div Len(Catalog)) + 1]]

Combinations == Len(Catalog) * Len(Distances)

Confirming == \E t \in Tasks : tasks[t].kind = "confirm_upload" /\ tasks[t].pc # "done"

\* the combinations confirmed so far
Confirmed == Cardinality(CompletedCombinations("s1"))

\* C16 (SpecWorkflow): when clients begin, stop and confirm_upload what was
\* last announced, starting with the first step at nom, then after n
\* confirm_upload events the recordings are those of the first n
\* combinations (and of the next, once begun), two rows each, the step
\* announced is the combination n + 1, and after the last confirm_upload it
\* is step null at far, broadcast as next_step_ready by that confirm_upload.
C16_WorkflowOrder ==
    ~Confirming =>
        /\ Confirmed <= Combinations
        /\ CompletedCombinations("s1") =
              {<<Combination(n).step, Combination(n).distance>> : n \in 1..Confirmed}
        /\ \A r \in recordings :
              \E n \in 1..(Confirmed + 1) :
                 /\ n <= Combinations
                 /\ r.postureLabel = Combination(n).step
                 /\ r.distance = Combination(n).distance
                 /\ Cardinality(StepRecordings("s1", r.postureLabel, r.distance)) <= 2
        /\ announced = IF Confirmed < Combinations
                       THEN Combination(Confirmed + 1)
                       ELSE [step |-> NoStep, distance |-> "far"]
        /\ \A t \in Tasks :
              (tasks[t].kind = "confirm_upload" /\ tasks[t].pc = "done")
              => /\ Len(tasks[t].out) = 2
                 /\ tasks[t].out[2].ev = "next_step_ready"
                 /\ tasks[t].out[2].to = Subscribers
                 /\ tasks[t].out[2].step = announced.step
                 /\ tasks[t].out[2].distance = announced.distance

\* the confirm_upload of the last combination
C16_Witness ==
    \E t \in Tasks :
        /\ tasks[t].kind = "confirm_upload"
        /\ tasks[t].pc = "done"
        /\ Confirmed = Combinations
        /\ Cardinality(recordings) = 2 * Combinations
        /\ tasks[t].out[2].step = NoStep
        /\ tasks[t].out[2].distance = "far"

\* an upload_completed handler has run to its end without an exception
UploadDone(t) ==
    /\ tasks[t].kind = "upload_completed"
    /\ tasks[t].pc = "done"
    /\ ~tasks[t].failed

\* the Recording rows of the (session, step, distance) of the recording of t
PairRows(t) ==
    StepRecordings(tasks[t].rec.sessionId, tasks[t].rec.postureLabel, tasks[t].rec.distance)

C18_RaceStillReports ==
    (\A t \in Tasks : UploadDone(t)) =>
        /\ \A r \in recordings : r.uploadStatus = "COMPLETED"
        /\ \E t \in Tasks :
              \E i \in 1..Len(tasks[t].out) :
                 /\ tasks[t].out[i].ev = "recording_uploaded"
                 /\ tasks[t].out[i].to = Subscribers
                 /\ tasks[t].out[i].postureLabel = FirstStep.step

\* the handlers overlapped: one of them checked before the other had saved,
\* and does not report
C18_Witness ==
    /\ \A t \in Tasks : UploadDone(t)
    /\ \E t \in Tasks : ~Reported(t, "recording_uploaded")
    /\ \E t \in Tasks : Reported(t, "recording_uploaded")

\* the states InitUploadRace starts from are states of SpecWorkflow
RecordedReached == Quiescent /\ \E first \in DeviceType, confirmed \in BOOLEAN : Recorded(first, confirmed)

\* every step of the catalog has, at every distance, two Recording rows, both
\* COMPLETED
EveryPairComplete ==
    \A key \in Keys :
        /\ Cardinality(RowsOfKey(key)) = 2
        /\ \A r \in RowsOfKey(key) : r.uploadStatus = "COMPLETED"

\* C19 (SpecSession): an upload_completed handler has set the session
\* COMPLETED and broadcast session_completed if and only if, with its
\* recording COMPLETED, every (catalog step, distance) has a complete pair;
\* recordings of a posture that is no catalog step make no difference.
C19_SessionCompleted ==
    \A t \in Tasks :
        UploadDone(t) =>
            /\ Reported(t, "session_completed") <=> EveryPairComplete
            /\ Reported(t, "session_completed") => session.status = "COMPLETED"

\* C20 (SpecUploads): a handler whose event raised an exception has sent an
\* error notice, to the connection the event came from and to no other.
C20_ErrorsReported ==
    \A t \in Tasks :
        tasks[t].failed =>
            /\ Reported(t, "error")
            /\ \A i \in 1..Len(tasks[t].out) :
                  tasks[t].out[i].ev = "error" => tasks[t].out[i].to = {tasks[t].conn}

\* a join_session whose session id names no session: the id of no session,
\* no id, or the id of a session not yet created when getSession looked
UnknownJoin(t) ==
    /\ tasks[t].kind = "join"
    /\ tasks[t].sid \in {"sx", MissingId} \/ tasks[t].failed

\* C21 (Spec): no step of a join_session handler for an unknown or missing
\* session id changes a Device row, the session row, the connection map or
\* the room, and when it has ended it has sent one message, an error notice
\* to the requesting connection only.
C21_UnknownSessionJoin ==
    [][\A t \in Tasks :
          (UnknownJoin(t)' /\ tasks'[t] # tasks[t])
          => /\ UNCHANGED <<session, devices, nextDeviceId, deviceSockets, rooms>>
             /\ tasks'[t].pc = "done" =>
                   /\ Len(tasks'[t].out) = 1
                   /\ tasks'[t].out[1].ev = "error"
                   /\ tasks'[t].out[1].to = {tasks'[t].conn}]_vars

\* the join of an unknown id has failed beside an existing session with an
\* attached device
C21_Witness ==
    \E t \in Tasks :
        /\ tasks[t].kind = "join"
        /\ tasks[t].sid = "sx"
        /\ tasks[t].pc = "done"
        /\ tasks[t].out = <<ErrorNotice(tasks[t].conn, "Session not found")>>
        /\ session.exists
        /\ devices # {}
        /\ tasks[t].conn \notin rooms

\* C22 (SpecRecord): when the stop_recording handler has read a session whose
\* status is not RECORDING, its next step leaves the status as it is and ends
\* the handler with an error notice to the sender.
C22_StopWithoutRecording ==
    [][\A t \in Tasks :
          (/\ tasks[t].kind = "stop"
           /\ tasks[t].pc = "uss_save"
           /\ tasks[t].sess.status # "RECORDING"
           /\ tasks'[t] # tasks[t])
          => /\ session'.status = session.status
             /\ tasks'[t].pc = "done"
             /\ \E i \in 1..Len(tasks'[t].out) :
                   /\ tasks'[t].out[i].ev = "error"
                   /\ tasks'[t].out[i].to = {tasks[t].conn}]_vars

\* disconnectDevice found the device with no live connection
AlreadyDetached(t) ==
    /\ tasks[t].kind = "disconnect"
    /\ tasks[t].pc \in {"dd_saveDevice", "udc_getSession", "udc_save"}
    /\ tasks[t].prevSocket = NoConn

\* C23 (SpecDetach): no step of disconnectDevice on a device that was already
\* detached changes a Device row (socketId, disconnectedAt) or the session
\* row (connection flags, status).
C23_DetachIdempotent ==
    [][\A t \in Tasks :
          (AlreadyDetached(t) /\ tasks'[t] # tasks[t]) => UNCHANGED <<devices, session>>]_vars

\* C24 (SpecCreate): no two rows of table sessions have the same code, and no
\* call of createSession ends with the rejection of a colliding code: it
\* retries and returns a persisted session.
C24_UniqueCodeWithRetry ==
    /\ \A i, j \in 1..Len(sessionCodes) : sessionCodes[i] = sessionCodes[j] => i = j
    /\ created # "QueryFailedError"

\* C25 (SpecWorkflow): the status becomes RECORDING only from READY and
\* becomes UPLOADING only from RECORDING.
C25_StatusEdges ==
    [][/\ (session'.status = "RECORDING" /\ session.status # "RECORDING")
             => session.status = "READY"
       /\ (session'.status = "UPLOADING" /\ session.status # "UPLOADING")
             => session.status = "RECORDING"]_vars

\* C26 (SpecWorkflow): when the handler of a confirm_upload received in
\* status UPLOADING has ended, the status of the session is READY.
C26_ConfirmReturnsToReady ==
    \A t \in Tasks :
        (tasks[t].kind = "confirm_upload" /\ tasks[t].pc = "done")
        => session.status = "READY"

\* the status the joins of a new session lead to, by the connection flags
StatusOfFlags(desktopConnected, mobileConnected) ==
    IF desktopConnected /\ mobileConnected THEN "READY"
    ELSE IF desktopConnected THEN "WAITING_FOR_MOBILE"
    ELSE "CREATED"

\* C27 (Spec): while the status is CREATED, WAITING_FOR_MOBILE or READY it is
\* the status the two connection flags determine; READY never goes with a
\* false flag.
C27_StatusFromFlags ==
    (session.exists /\ session.status \in {"CREATED", "WAITING_FOR_MOBILE", "READY"})
    => session.status = StatusOfFlags(session.desktopConnected, session.mobileConnected)

CompletedReached == Completed /\ Quiescent /\ created = "persisted" /\ sessionCodes = <<FirstCode>>

JoinOrDisconnectStep(t) ==
    /\ tasks'[t] # tasks[t]
    /\ tasks[t].kind \in {"join", "disconnect"} \/ tasks'[t].kind \in {"join", "disconnect"}

LatestDistance(sid) ==
    IF \E r \in recordings : r.sessionId = sid
    THEN LET latest == CHOOSE r \in recordings :
                          /\ r.sessionId = sid
                          /\ \A q \in recordings : q.sessionId = sid => q.id <= r.id
         IN  latest.distance
    ELSE "nom"

\* the labels both devices have an UPLOADING or COMPLETED recording of at a distance
CompletedAt(sid, dist) ==
    {r.postureLabel : r \in
        {q \in recordings :
            /\ q.sessionId = sid
            /\ q.distance = dist
            /\ \A role \in DeviceType :
                  \E p \in recordings :
                      /\ p.sessionId = sid
                      /\ p.postureLabel = q.postureLabel
                      /\ p.distance = dist
                      /\ p.deviceType = role
                      /\ p.uploadStatus \in {"UPLOADING", "COMPLETED"}}}

ExcludedAt(sid, dist, hint) ==
    CompletedAt(sid, dist) \cup (IF hint = NoHint THEN {} ELSE {hint})

\* the positions in the catalog of the steps left at a distance
StepsLeft(sid, dist, hint) ==
    {i \in 1..Len(Catalog) : Catalog[i] \notin ExcludedAt(sid, dist, hint)}

\* C29 (SpecSequencer): when getNextPostureStep has returned and some catalog
\* step is neither completed at the distance of the most recently created
\* recording ('nom' if none) nor the hinted label, the result is the first
\* such step in catalog order, paired with that distance.
C29_FirstStepLeft ==
    \A t \in Tasks :
        tasks[t].pc = "gn_emit" =>
            LET dist == LatestDistance(tasks[t].sid)
                left == StepsLeft(tasks[t].sid, dist, tasks[t].label)
            IN  left # {} =>
                    /\ tasks[t].result.distance = dist
                    /\ \E i \in left :
                          /\ tasks[t].result.step = Catalog[i]
                          /\ \A j \in left : i <= j

\* the first step is completed at 'close', the latest distance: the second
\* step at 'close' is returned
C29_Witness ==
    \E t \in Tasks :
        /\ tasks[t].pc = "gn_emit"
        /\ tasks[t].label = NoHint
        /\ LatestDistance("s1") = "close"
        /\ CompletedAt("s1", "close") = {Catalog[1]}
        /\ tasks[t].result = [step |-> Catalog[2], distance |-> "close"]

\* the distance variant after dist in the order nom, close, far
NextDistance(dist) ==
    LET i == CHOOSE j \in 1..Len(Distances) : Distances[j] = dist
    IN  Distances[i + 1]

\* C30 (SpecSequencer): when getNextPostureStep has returned, every catalog
\* step is completed at the current distance or is the hinted label, and the
\* current distance is not the last, the result is the first catalog step
\* paired with the next distance.
C30_AdvanceDistance ==
    \A t \in Tasks :
        tasks[t].pc = "gn_emit" =>
            LET dist == LatestDistance(tasks[t].sid)
            IN  (StepsLeft(tasks[t].sid, dist, tasks[t].label) = {}
                    /\ dist # Distances[Len(Distances)])
                => tasks[t].result = [step |-> Catalog[1], distance |-> NextDistance(dist)]

\* C31 (SpecSequencer): getNextPostureStep never returns a step at a distance
\* at which both device roles have an UPLOADING or COMPLETED recording of it.
C31_CompletedNotReturned ==
    \A t \in Tasks :
        tasks[t].pc = "gn_emit" =>
            tasks[t].result.step \notin CompletedAt(tasks[t].sid, tasks[t].result.distance)

\* the recordings a confirm_upload payload names: those of its session with
\* its step and distance when it carries both, all of its session otherwise
Named(t, r) ==
    /\ r.sessionId = tasks[t].sid
    /\ (tasks[t].label # NoHint /\ tasks[t].dist # NoHint)
          => (r.postureLabel = tasks[t].label /\ r.distance = tasks[t].dist)

\* C32 (SpecSequencer): a step of the confirm_upload handler changes no
\* Recording row but PENDING rows the payload names, which it sets to
\* UPLOADING; and when the handler broadcasts its acknowledgement no row the
\* payload names is PENDING.
C32_ConfirmFrame ==
    [][\A t \in Tasks :
          (tasks[t].kind = "confirm_upload" /\ tasks'[t] # tasks[t])
          => /\ \A r \in recordings :
                   \/ r \in recordings'
                   \/ /\ r.uploadStatus = "PENDING"
                      /\ Named(t, r)
                      /\ [r EXCEPT !.uploadStatus = "UPLOADING"] \in recordings'
             /\ {r.id : r \in recordings'} = {r.id : r \in recordings}
             /\ Cardinality(recordings') = Cardinality(recordings)
             /\ tasks'[t].pc = "cu_emit"
                   => \A r \in recordings' : Named(t, r) => r.uploadStatus # "PENDING"]_vars

\* the rows of the confirmed step are UPLOADING, the PENDING rows of another
\* step are as they were
C32_Witness ==
    \E t \in Tasks :
        /\ tasks[t].kind = "confirm_upload"
        /\ tasks[t].pc = "cu_emit"
        /\ tasks[t].label # NoHint
        /\ Cardinality({r \in recordings : Named(t, r) /\ r.uploadStatus = "UPLOADING"}) = 2
        /\ \E r \in recordings : ~Named(t, r) /\ r.uploadStatus = "PENDING"

\* C33 (SpecSequencer): a confirm_upload handled to its end has sent two
\* messages: first the 'confirm_upload' acknowledgement to the whole room,
\* the sender included, then one 'next_step_ready' to the room whose step and
\* distance are what the sequencer returns for the ledger with the rows
\* marked, the confirmed label excluded (it comes back only as the first step
\* of the catalog, when no step is left at the distance).
C33_AckThenNextStep ==
    \A t \in Tasks :
        (tasks[t].kind = "confirm_upload" /\ tasks[t].pc = "done" /\ ~tasks[t].failed)
        => /\ Len(tasks[t].out) = 2
           /\ tasks[t].out[1].ev = "confirm_upload"
           /\ tasks[t].out[1].to = Subscribers
           /\ tasks[t].conn \in tasks[t].out[1].to
           /\ tasks[t].out[2].ev = "next_step_ready"
           /\ tasks[t].out[2].to = Subscribers
           /\ \A r \in recordings : Named(t, r) => r.uploadStatus # "PENDING"
           /\ LET dist == LatestDistance(tasks[t].sid)
                  left == StepsLeft(tasks[t].sid, dist, tasks[t].label)
              IN  /\ [step |-> tasks[t].out[2].step, distance |-> tasks[t].out[2].distance]
                        \in GetNextPostureStep(tasks[t].sid, tasks[t].label)
                  /\ tasks[t].out[2].step # tasks[t].label
                        \/ (left = {} /\ Catalog[1] = tasks[t].label)

\* the first step confirmed at 'nom': acknowledgement, then the second step
\* at 'nom'
C33_Witness ==
    \E t \in Tasks :
        /\ tasks[t].kind = "confirm_upload"
        /\ tasks[t].pc = "done"
        /\ tasks[t].label = Catalog[1]
        /\ tasks[t].dist = "nom"
        /\ Len(tasks[t].out) = 2
        /\ tasks[t].out[1].ev = "confirm_upload"
        /\ tasks[t].out[2].ev = "next_step_ready"
        /\ tasks[t].out[2].step = Catalog[2]
        /\ tasks[t].out[2].distance = "nom"
        /\ \E r \in recordings : Named(t, r) /\ r.uploadStatus = "UPLOADING"

\* C34 (SpecSequencer): only the handler of confirm_upload broadcasts
\* 'next_step_ready'.
C34_OnlyFromConfirmUpload ==
    \A t \in Tasks : Reported(t, "next_step_ready") => tasks[t].kind = "confirm_upload"

\* t handles the second delivery of the confirm_upload u has handled
SecondDelivery(u, t) ==
    /\ u # t
    /\ tasks[u].kind = "confirm_upload"
    /\ tasks[u].pc = "done"
    /\ tasks[t].kind = "confirm_upload"
    /\ tasks[t].sid = tasks[u].sid
    /\ tasks[t].label = tasks[u].label
    /\ tasks[t].dist = tasks[u].dist

\* C35 (SpecRedeliver): no step of the handler of a second delivery of a
\* confirm_upload changes a Recording row, and when it has ended it has
\* broadcast the same next step and distance as the first.
C35_ConfirmTwice ==
    [][\A u, t \in Tasks :
          (SecondDelivery(u, t) /\ tasks'[t] # tasks[t] /\ tasks'[u] = tasks[u])
          => /\ recordings' = recordings
             /\ tasks'[t].pc = "done"
                   => /\ Len(tasks'[t].out) = 2
                      /\ tasks'[t].out[2].ev = "next_step_ready"
                      /\ tasks'[t].out[2].step = tasks[u].out[2].step
                      /\ tasks'[t].out[2].distance = tasks[u].out[2].distance
                      /\ announced' = announced]_vars

\* both deliveries of the confirm_upload of the first step have been handled
C35_Witness ==
    \E u, t \in Tasks :
        /\ SecondDelivery(u, t)
        /\ tasks[t].pc = "done"
        /\ tasks[t].conn # tasks[u].conn
        /\ tasks[t].label = Catalog[1]
        /\ tasks[t].out[2] = tasks[u].out[2]
        /\ tasks[t].out[2].step = Catalog[2]
        /\ \A r \in recordings : r.uploadStatus = "UPLOADING"

\* how far a status is along PENDING, UPLOADING, COMPLETED or FAILED
StatusRank(status) ==
    CASE status = "PENDING" -> 0
      [] status = "UPLOADING" -> 1
      [] OTHER -> 2

\* C36 (SpecUploads): the upload status of a Recording row only moves forward,
\* and a COMPLETED row stays COMPLETED for as long as it exists.
C36_StatusForward ==
    [][\A r \in recordings : \A q \in recordings' :
          q.id = r.id
          => /\ StatusRank(q.uploadStatus) >= StatusRank(r.uploadStatus)
             /\ r.uploadStatus = "COMPLETED" => q.uploadStatus = "COMPLETED"]_vars

\* C37 (SpecUploads): every confirm_rerecord handled has broadcast
\* 'confirm_rerecord', whether it carried no recording id, one that resolves or
\* one that no longer resolves.
C37_RerecordAlwaysBroadcast ==
    \A t \in Tasks :
        (tasks[t].kind = "confirm_rerecord" /\ tasks[t].pc = "done")
        => Reported(t, "confirm_rerecord")

\* C38 (SpecFrame): a step of a join_session or disconnect handler leaves the
\* Recording rows as they are and creates none, and the Device a join has
\* attached is the one the recordings of its session and role carry.
C38_ReconnectKeepsRecordings ==
    [][\A t \in Tasks :
          JoinOrDisconnectStep(t)
          => /\ recordings' = recordings
             /\ nextRecordingId' = nextRecordingId
             /\ (tasks'[t].kind = "join" /\ tasks'[t].device.id # NoDeviceId)
                   => \A r \in recordings' :
                         (r.sessionId = tasks'[t].sid /\ r.deviceType = tasks'[t].role)
                         => r.deviceId = tasks'[t].device.id]_vars

\* a role whose connection dropped while the session was recording joins
\* again: its Device row, detached, is the one its pending recording names
C38_Witness ==
    \E t \in Tasks :
        /\ tasks[t].kind = "join"
        /\ tasks[t].pc = "js_commit"
        /\ session.status = "RECORDING"
        /\ ~Flag(tasks[t].role)
        /\ \E d \in devices :
              /\ d.id = tasks[t].device.id
              /\ d.socketId = NoConn
              /\ d.disconnectedAt # NoDate
              /\ tasks[t].device.socketId = tasks[t].conn
        /\ \E r \in recordings :
              /\ r.sessionId = tasks[t].sid
              /\ r.deviceType = tasks[t].role
              /\ r.deviceId = tasks[t].device.id
              /\ r.uploadStatus = "PENDING"

\* C39 (Spec): once the disconnect of a connection has been handled, no Device
\* row carries that connection as its socketId and deviceSockets has no entry
\* for it.
C39_DisconnectClearsAll ==
    Quiescent
    => \A c \in Conns :
          ~connOpen[c]
          => /\ deviceSockets[c] = NoInfo
             /\ \A d \in devices : d.socketId # c

\* C40 (SpecRest): the response to GET api/postures/:sessionId/next has
\* completed: true and step: null exactly when getNextPostureStep has returned
\* step = null, and otherwise completed: false and the posture label of the
\* step returned.
C40_NextPostureResponse ==
    \A t \in Tasks :
        (tasks[t].kind = "get_next_posture" /\ tasks[t].pc = "done")
        => LET response == tasks[t].out[1]
               result == tasks[t].result
           IN  IF result.step = NoStep
               THEN response.completed /\ response.step = NoStep
               ELSE /\ ~response.completed
                    /\ response.step = [postureLabel |-> result.step]

====
